---- MODULE Spec2Model ----
(***************************************************************************)
(* Contxtly browser extension: the content script's annotation engine,     *)
(* the page-keyed highlight storage, the word list / export view and the   *)
(* transient translate button and tooltip.                                 *)
(*                                                                         *)
(* The specifications share the variables:                                 *)
(*   SpecStore  storage operations over several page identities            *)
(*   SpecRace   storage operations split into their get and their set      *)
(*   Spec       the document of one page: annotate, delete, reload+restore *)
(*   SpecFault  Spec's page where the DOM may refuse a new mark            *)
(*   SpecUI     the page's events: selection, button, tooltip, translation *)
(*   SpecOwn    mouse events on the extension's elements and on markers    *)
(*   SpecText   the content script's functions on a selection              *)
(*   SpecRepeat a text translated, then selected and translated again      *)
(*   SpecRelated annotation with related words                             *)
(*   SpecTabs   the page open in two tabs and the popup's word list        *)
(***************************************************************************)
EXTENDS Integers, Sequences, FiniteSets, TLC

VARIABLES
    highlights,   \* chrome.storage.local "highlights": ordered map url -> records
    clock,        \* Date.now()
    words,        \* popup: let words = []
    notes,        \* handleExportToAnki: the deduplicated list the notes are built from
    ret,          \* value returned by the last getCachedTranslation call
    lastOp,       \* history: the operation that produced the current state
                  \* (keys: the texts a remove deleted, the keys a word-list delete got)
    dom,          \* document.body: one token sequence per block element
                  \* (in SpecTabs one block per tab)
    restoreIdx,   \* restore(): position of the for..of loop (0: not restoring)
    button,       \* ui.js: let button
    tooltip,      \* ui.js: let tooltip
    attached,     \* transient elements attached to document.body
    requests,     \* asynchronous calls awaiting their response: translate() calls,
                  \* in SpecRace storage operations between their get and their set,
                  \* in SpecTabs removeHighlight messages on their way to a tab
    nextEl        \* next element / request identity

vars == <<highlights, clock, words, notes, ret, lastOp, dom, restoreIdx,
          button, tooltip, attached, requests, nextEl>>

storeVars == <<highlights, clock, words, notes, ret>>
domVars   == <<dom, restoreIdx>>
uiVars    == <<button, tooltip, attached, requests, nextEl>>

----------------------------------------------------------------------------
(* Bounds *)

MaxRecords == 3      \* records held in storage, all pages together
MaxClock   == 2      \* largest Date.now() value

----------------------------------------------------------------------------
(* Values *)

Laufen == <<"l", "a", "u", "f", "e", "n">>
Laeuft == <<"l", "a", "e", "u", "f", "t">>
CtxA   == <<"e", "r", " ", "l", "a", "e", "u", "f", "t">>
CtxB   == <<"w", "i", "r", " ", "l", "a", "u", "f", "e", "n">>

Empty == <<>>                       \* "" and a missing field are both falsy

\* TranslationPayload: the response object of the translation boundary
Payload(id, lemma) == [id |-> id, lemma |-> lemma]
Null == Payload("null", Empty)

\* a || b on strings
OrElse(a, b) == IF a # Empty THEN a ELSE b

\* h.lemma || h.text
KeyOf(h) == OrElse(h.lemma, h.text)

----------------------------------------------------------------------------
(* Sequence helpers *)

RECURSIVE FlatMap(_)
FlatMap(ss) == IF ss = <<>> THEN <<>> ELSE Head(ss) \o FlatMap(Tail(ss))

RECURSIVE IndexOfFirst(_, _, _)
\* least i >= from with Test(s[i]) encoded by the set of good indices
IndexOfFirst(good, from, n) ==
    IF from > n THEN 0
    ELSE IF from \in good THEN from
    ELSE IndexOfFirst(good, from + 1, n)

Range(s) == {s[i] : i \in 1..Len(s)}

----------------------------------------------------------------------------
(* Storage: the ordered map  url -> list of records *)

HasUrl(h, url) == \E i \in 1..Len(h) : h[i].url = url

\* highlights[url] || []
ItemsOf(h, url) ==
    IF HasUrl(h, url)
    THEN h[CHOOSE i \in 1..Len(h) : h[i].url = url].items
    ELSE <<>>

\* highlights[url] = items   (a new key goes last, an existing key keeps its place)
SetItems(h, url, items) ==
    IF HasUrl(h, url)
    THEN [i \in 1..Len(h) |-> IF h[i].url = url THEN [url |-> url, items |-> items] ELSE h[i]]
    ELSE Append(h, [url |-> url, items |-> items])

\* delete highlights[url]
DeleteUrl(h, url) == SelectSeq(h, LAMBDA e : e.url # url)

TotalRecords(h) == Len(FlatMap([i \in 1..Len(h) |-> h[i].items]))

MakeRecord(text, translation, context, now) ==
    [text |-> text, lemma |-> OrElse(translation.lemma, text),
     translation |-> translation, context |-> context, timestamp |-> now]

\* saveHighlight: read, create the list if missing, push, write back
SaveHighlightPrependMut(h, url, text, translation, context, now) ==
    SetItems(h, url, <<MakeRecord(text, translation, context, now)>> \o ItemsOf(h, url))

SaveOnlyPageMut(h, url, text, translation, context, now) ==
    <<[url |-> url, items |-> Append(ItemsOf(h, url), MakeRecord(text, translation, context, now))]>>

SaveHighlightResult(h, url, text, translation, context, now) ==
    SetItems(h, url, Append(ItemsOf(h, url), MakeRecord(text, translation, context, now)))

\* removeFromStorage: no write when the page has no list; an emptied list is deleted
RemoveByTextMut(h, url, lemma) ==
    IF ~HasUrl(h, url) THEN h
    ELSE LET kept == SelectSeq(ItemsOf(h, url), LAMBDA r : r.text # lemma)
         IN IF kept = <<>> THEN DeleteUrl(h, url) ELSE SetItems(h, url, kept)

RemoveKeepsEmptyListMut(h, url, lemma) ==
    IF ~HasUrl(h, url) THEN h
    ELSE SetItems(h, url, SelectSeq(ItemsOf(h, url), LAMBDA r : KeyOf(r) # lemma))

RemoveFromStorageResult(h, url, lemma) ==
    IF ~HasUrl(h, url) THEN h
    ELSE LET kept == SelectSeq(ItemsOf(h, url), LAMBDA r : KeyOf(r) # lemma)
         IN IF kept = <<>> THEN DeleteUrl(h, url) ELSE SetItems(h, url, kept)

\* getCachedTranslation: first record with the same text and the same context
CachedByLemmaMut(h, url, text, context) ==
    LET items == ItemsOf(h, url)
        good  == {i \in 1..Len(items) : KeyOf(items[i]) = text /\ items[i].context = context}
    IN IF good = {} THEN Null
       ELSE items[IndexOfFirst(good, 1, Len(items))].translation

getCachedTranslation(h, url, text, context) ==
    LET items == ItemsOf(h, url)
        good  == {i \in 1..Len(items) : items[i].text = text /\ items[i].context = context}
    IN IF good = {} THEN Null
       ELSE items[IndexOfFirst(good, 1, Len(items))].translation

----------------------------------------------------------------------------
(* Word list (popup) and export: one entry per key, most recent first *)

\* Object.entries(highlights).flatMap(([url, items]) => items.map(h => ({...h, url})))
WithUrl(r, url) ==
    [text |-> r.text, lemma |-> r.lemma, translation |-> r.translation,
     context |-> r.context, timestamp |-> r.timestamp, url |-> url]

AllWords(h) ==
    FlatMap([i \in 1..Len(h) |->
                [j \in 1..Len(h[i].items) |-> WithUrl(h[i].items[j], h[i].url)]])

\* Array.prototype.sort((a, b) => (b.timestamp || 0) - (a.timestamp || 0)): stable
RECURSIVE SortAscMut(_)
SortAscMut(s) ==
    IF s = <<>> THEN <<>>
    ELSE LET pre == SortAscMut(SubSeq(s, 1, Len(s) - 1))
             x   == s[Len(s)]
             k   == Cardinality({i \in 1..Len(pre) : pre[i].timestamp <= x.timestamp})
         IN SubSeq(pre, 1, k) \o <<x>> \o SubSeq(pre, k + 1, Len(pre))

RECURSIVE SortRecentFirst(_)
SortRecentFirst(s) ==
    IF s = <<>> THEN <<>>
    ELSE LET pre == SortRecentFirst(SubSeq(s, 1, Len(s) - 1))
             x   == s[Len(s)]
             k   == Cardinality({i \in 1..Len(pre) : pre[i].timestamp >= x.timestamp})
         IN SubSeq(pre, 1, k) \o <<x>> \o SubSeq(pre, k + 1, Len(pre))

\* .filter(h => { const key = h.lemma || h.text; return !seen.has(key) && seen.add(key) })
FirstSeenByTextMut(s) ==
    LET keep == {i \in 1..Len(s) : \A j \in 1..(i - 1) : s[j].text # s[i].text}
        F[i \in 0..Len(s)] ==
            IF i = 0 THEN <<>>
            ELSE IF i \in keep THEN Append(F[i - 1], s[i]) ELSE F[i - 1]
    IN F[Len(s)]

FirstSeenByKey(s) ==
    LET keep == {i \in 1..Len(s) : \A j \in 1..(i - 1) : KeyOf(s[j]) # KeyOf(s[i])}
        F[i \in 0..Len(s)] ==
            IF i = 0 THEN <<>>
            ELSE IF i \in keep THEN Append(F[i - 1], s[i]) ELSE F[i - 1]
    IN F[Len(s)]

\* loadWords (popup)
loadWords(h) == FirstSeenByKey(SortRecentFirst(AllWords(h)))

\* handleExportToAnki: the words the notes are built from
exportWords(h) == FirstSeenByKey(SortRecentFirst(AllWords(h)))

\* deleteSelected: filter every page's list, drop the pages left empty
deleteSelectedResult(h, lemmas) ==
    LET filtered == [i \in 1..Len(h) |->
                        [url   |-> h[i].url,
                         items |-> SelectSeq(h[i].items, LAMBDA r : KeyOf(r) \notin lemmas)]]
    IN SelectSeq(filtered, LAMBDA e : e.items # <<>>)

----------------------------------------------------------------------------
(* History record of the operation that produced the current state *)

NoRange == [blk |-> 0, s |-> 0, e |-> 0, sEl |-> FALSE, eEl |-> FALSE]

OpAt(op, url, text, context, translation, keys, rng) ==
    [op |-> op, url |-> url, text |-> text, context |-> context,
     translation |-> translation, keys |-> keys, rng |-> rng, id |-> 0, target |-> ""]

Op(op, url, text, context, translation, keys) ==
    OpAt(op, url, text, context, translation, keys, NoRange)

NoOp == Op("init", "", Empty, Empty, Null, {})

----------------------------------------------------------------------------
(* SpecStore: storage operations of the content scripts of several pages,  *)
(* the popup's word list and the export, none of them interleaved          *)

Urls == {"A", "B"}

\* what the content scripts save: (text, payload, context)
SaveInputs ==
    { <<Laeuft, Payload("t1", Laufen), CtxA>>,
      <<Laeuft, Payload("t3", Empty),  CtxA>>,
      <<Laufen, Payload("t2", Empty),  CtxB>> }

StoreTexts == {in[1] : in \in SaveInputs}
StoreCtxs  == {in[3] : in \in SaveInputs}

\* a record written by an earlier release: no lemma, no timestamp
LegacyRecord == [text |-> Laeuft, lemma |-> Empty, translation |-> Payload("t0", Empty),
                 context |-> CtxB, timestamp |-> 0]

InitStore ==
    /\ highlights \in {<<>>, <<[url |-> "A", items |-> <<LegacyRecord>>]>>}
    /\ clock = 1
    /\ words = <<>>
    /\ notes = <<>>
    /\ ret = Null
    /\ lastOp = NoOp
    /\ dom = <<>>
    /\ restoreIdx = 0
    /\ button = 0
    /\ tooltip = 0
    /\ attached = {}
    /\ requests = {}
    /\ nextEl = 1

\* The popup document (and its word list) is gone while a page has the focus; return
\* values and locals do not outlive their call.
\* Date.now() never runs backwards; two saves may fall into the same millisecond.
StoreSave(url, text, translation, context, now) ==
    /\ TotalRecords(highlights) < MaxRecords
    /\ now >= clock /\ now <= MaxClock
    /\ clock' = now
    /\ highlights' = SaveHighlightResult(highlights, url, text, translation, context, now)
    /\ lastOp' = Op("save", url, text, context, translation, {})
    /\ words' = <<>> /\ notes' = <<>> /\ ret' = Null
    /\ UNCHANGED <<domVars, uiVars>>

StoreRemove(url, lemma) ==
    /\ highlights' = RemoveFromStorageResult(highlights, url, lemma)
    /\ lastOp' = Op("remove", url, lemma, Empty, Null,
                    {r.text : r \in Range(ItemsOf(highlights, url))
                                    \ Range(ItemsOf(highlights', url))})
    /\ words' = <<>> /\ notes' = <<>> /\ ret' = Null
    /\ UNCHANGED <<clock, domVars, uiVars>>

StoreFindCached(url, text, context) ==
    /\ ret' = getCachedTranslation(highlights, url, text, context)
    /\ lastOp' = Op("findCached", url, text, context, Null, {})
    /\ words' = <<>> /\ notes' = <<>>
    /\ UNCHANGED <<highlights, clock, domVars, uiVars>>

LoadWords ==
    /\ words' = loadWords(highlights)
    /\ lastOp' = Op("loadWords", "", Empty, Empty, Null, {})
    /\ notes' = <<>> /\ ret' = Null
    /\ UNCHANGED <<highlights, clock, domVars, uiVars>>

ExportToAnki ==
    /\ notes' = exportWords(highlights)
    /\ lastOp' = Op("export", "", Empty, Empty, Null, {})
    /\ ret' = Null
    /\ UNCHANGED <<highlights, clock, words, domVars, uiVars>>

\* the selection is made of keys of rendered word items; the list is reloaded at the end
DeleteSelected(lemmas) ==
    /\ lemmas # {}
    /\ highlights' = deleteSelectedResult(highlights, lemmas)
    /\ words' = loadWords(highlights')
    /\ lastOp' = Op("deleteSelected", "", Empty, Empty, Null, lemmas)
    /\ notes' = <<>> /\ ret' = Null
    /\ UNCHANGED <<clock, domVars, uiVars>>

NextStore ==
    \/ \E url \in Urls, in \in SaveInputs, now \in {clock, clock + 1} :
          StoreSave(url, in[1], in[2], in[3], now)
    \/ \E url \in Urls, lemma \in StoreTexts : StoreRemove(url, lemma)
    \/ \E text \in StoreTexts, context \in StoreCtxs : StoreFindCached("A", text, context)
    \/ LoadWords
    \/ ExportToAnki
    \/ \E lemmas \in SUBSET {KeyOf(words[i]) : i \in 1..Len(words)} : DeleteSelected(lemmas)

SpecStore == InitStore /\ [][NextStore]_vars

----------------------------------------------------------------------------
(* SpecRace: the storage operations of two tabs and of the popup, each      *)
(* split into its chrome.storage.local.get and its chrome.storage.local.set *)

Tabs  == {"tab1", "tab2"}
Popup == "popup"

\* the page of each tab and what its content script saves there
TabUrls == [tab1 |-> {"A"}, tab2 |-> {"A"}]
TabSave == [tab1 |-> <<Laeuft, Payload("t1", Laufen), CtxA>>,
            tab2 |-> <<Laeuft, Payload("t3", Empty), CtxA>>]

MaxRaceRecords == 2    \* records held in storage when a save starts

StorageCall(id, op, url, text, translation, context, lemmas, snap) ==
    [id |-> id, stage |-> "storage", op |-> op, url |-> url, text |-> text,
     translation |-> translation, context |-> context, lemmas |-> lemmas, snap |-> snap]

\* the value the call changes: what its get returned, whatever is stored by now
WorksOnStoredMut(r, stored) == stored

WorksOn(r, stored) == r.snap

\* removeFromStorage returns before its set when the page has no list
Writes(r) == ~(r.op = "remove" /\ ~HasUrl(r.snap, r.url))

\* what the call hands to chrome.storage.local.set
WriteBack(r, h, now) ==
    IF r.op = "save" THEN SaveHighlightResult(h, r.url, r.text, r.translation, r.context, now)
    ELSE IF r.op = "remove" THEN RemoveFromStorageResult(h, r.url, r.text)
    ELSE deleteSelectedResult(h, r.lemmas)

\* the records stored, each with its page
Recs(h) == UNION {{<<h[i].url, rec>> : rec \in Range(h[i].items)} : i \in 1..Len(h)}

InitRace ==
    /\ highlights = <<>>
    /\ clock = 1
    /\ words = <<>>
    /\ notes = <<>>
    /\ ret = Null
    /\ lastOp = NoOp
    /\ dom = <<>>
    /\ restoreIdx = 0
    /\ button = 0
    /\ tooltip = 0
    /\ attached = {}
    /\ requests = {}
    /\ nextEl = 1

\* await chrome.storage.local.get("highlights") of saveHighlight, removeFromStorage
\* or deleteSelected answers: the call holds the value stored at this moment
StorageGet(call) ==
    /\ \A r \in requests : r.id # call.id
    /\ call.op = "save" => TotalRecords(highlights) < MaxRaceRecords
    /\ requests' = requests \cup {[call EXCEPT !.snap = highlights]}
    /\ lastOp' = Op("get", "", Empty, Empty, Null, {})
    /\ UNCHANGED <<highlights, clock, words, notes, ret, dom, restoreIdx,
                   button, tooltip, attached, nextEl>>

\* the call changes the value it holds and chrome.storage.local.set stores it
\* (the calls fall into the same millisecond)
StorageSet(r) ==
    /\ r \in requests
    /\ r.stage = "storage"
    /\ highlights' = IF Writes(r) THEN WriteBack(r, WorksOn(r, highlights), clock)
                     ELSE highlights
    /\ requests' = requests \ {r}
    /\ lastOp' = [Op("set", "", Empty, Empty, Null,
                     {x[2].text : x \in Recs(highlights) \ (Recs(r.snap) \cup Recs(highlights'))})
                    EXCEPT !.target = r.id]
    /\ UNCHANGED <<clock, words, notes, ret, dom, restoreIdx, button, tooltip, attached, nextEl>>

NextRace ==
    \/ \E tab \in Tabs : \E url \in TabUrls[tab] :
          StorageGet(StorageCall(tab, "save", url, TabSave[tab][1], TabSave[tab][2],
                                 TabSave[tab][3], {}, <<>>))
    \/ \E tab \in Tabs : \E url \in TabUrls[tab], lemma \in StoreTexts :
          StorageGet(StorageCall(tab, "remove", url, lemma, Null, Empty, {}, <<>>))
    \/ \E lemmas \in SUBSET StoreTexts :
          lemmas # {} /\ StorageGet(StorageCall(Popup, "deleteSelected", "", Empty, Null, Empty, lemmas, <<>>))
    \/ \E r \in requests : StorageSet(r)

SpecRace == InitRace /\ [][NextRace]_vars

----------------------------------------------------------------------------------------------------------------------------------------
(* The document: each block element is a sequence of tokens, a character or the *)
(* start or end tag of an inline element (a marker <mark class=contxtly-highlight>). *)
(* Text nodes are the maximal runs of characters; a boundary point of a range is *)
(* a gap g (between token g and token g+1).                                      *)

Chr(c)         == [t |-> "chr",   c |-> c,  el |-> "",   text |-> Empty, tr |-> Null]
Open(text, tr) == [t |-> "open",  c |-> "", el |-> "mark", text |-> text,  tr |-> tr]
Close          == [t |-> "close", c |-> "", el |-> "mark", text |-> Empty, tr |-> Null]

\* the tags of an inline element of the page itself (<b>, <em>, <a>, ...)
OpenEl(el)  == [t |-> "open",  c |-> "", el |-> el, text |-> Empty, tr |-> Null]
CloseEl(el) == [t |-> "close", c |-> "", el |-> el, text |-> Empty, tr |-> Null]

IsChr(tok)   == tok.t = "chr"
IsOpen(tok)  == tok.t = "open"
IsClose(tok) == tok.t = "close"

MinOf(S) == CHOOSE x \in S : \A y \in S : x <= y

MaxOf(S) == CHOOSE x \in S : \A y \in S : x >= y

\* number of elements open at gap g
Depth(b, g) ==
    Cardinality({k \in 1..g : IsOpen(b[k])}) - Cardinality({k \in 1..g : IsClose(b[k])})

\* the end tag of the element whose start tag is token i:
\* scan from token j with n elements open since i
RECURSIVE ScanClose(_, _, _)
ScanClose(b, j, n) ==
    IF IsClose(b[j]) THEN (IF n = 0 THEN j ELSE ScanClose(b, j + 1, n - 1))
    ELSE IF IsOpen(b[j]) THEN ScanClose(b, j + 1, n + 1)
    ELSE ScanClose(b, j + 1, n)

MatchClose(b, i) == ScanClose(b, i + 1, 0)

\* the start tag of the element whose end tag is token j (0: before the block)
RECURSIVE ScanOpen(_, _, _)
ScanOpen(b, i, n) ==
    IF i < 1 THEN 0
    ELSE IF IsOpen(b[i]) THEN (IF n = 0 THEN i ELSE ScanOpen(b, i - 1, n - 1))
    ELSE IF IsClose(b[i]) THEN ScanOpen(b, i - 1, n + 1)
    ELSE ScanOpen(b, i - 1, n)

MatchOpen(b, j) == ScanOpen(b, j - 1, 0)

\* root.querySelectorAll(".contxtly-highlight"), by start tag
MarkOpens(b) == {i \in 1..Len(b) : IsOpen(b[i]) /\ b[i].el = "mark"}

\* gap g lies inside the element whose start tag is token i
Inside(b, i, g) == i <= g /\ g < MatchClose(b, i)

\* node.textContent of the tokens i..j
TextOf(b, i, j) ==
    LET ch == SelectSeq(SubSeq(b, i, j), IsChr)
    IN [k \in 1..Len(ch) |-> ch[k].c]

MarkText(b, i) == TextOf(b, i, MatchClose(b, i))

\* block.textContent
Flat(b) == TextOf(b, 1, Len(b))

\* characters before gap g
CharOffset(b, g) == Cardinality({k \in 1..g : IsChr(b[k])})

\* String.prototype.indexOf (0-based, -1 when absent); the empty string is found at 0
OccursAt(full, sub, k) ==
    /\ k + Len(sub) <= Len(full)
    /\ \A n \in 1..Len(sub) : full[k + n] = sub[n]

IndexOf(full, sub) ==
    LET hits == {k \in 0..Len(full) : OccursAt(full, sub, k)}
    IN IF hits = {} THEN -1 ELSE MinOf(hits)

Includes(full, sub) == IndexOf(full, sub) # -1

\* String.prototype.slice(from, to) with 0 <= from, and to counted from the end when negative
JsSlice(str, from, to) ==
    LET n  == Len(str)
        lo == IF from > n THEN n ELSE from
        hi == IF to < 0 THEN (IF n + to < 0 THEN 0 ELSE n + to) ELSE (IF to > n THEN n ELSE to)
    IN IF lo >= hi THEN Empty ELSE SubSeq(str, lo + 1, hi)

ContextPad  == 30    \* getContext: characters kept on each side
ContextTrim == 10    \* restoreHighlight: characters dropped on each side

\* getContext: the first occurrence of the text in the block, padded
getContext(b, text) ==
    LET full == Flat(b)
        idx  == IndexOf(full, text)
    IN IF idx = -1 THEN Empty
       ELSE JsSlice(full, IF idx - ContextPad < 0 THEN 0 ELSE idx - ContextPad,
                    IF idx + Len(text) + ContextPad > Len(full) THEN Len(full)
                    ELSE idx + Len(text) + ContextPad)

\* parent.closest(".contxtly-highlight") of the range's common ancestor:
\* the innermost marker holding both boundary points (0: none)
existing(b, rng) ==
    LET holding == {i \in MarkOpens(b) : Inside(b, i, rng.s) /\ Inside(b, i, rng.e)}
    IN IF holding = {} THEN 0 ELSE MaxOf(holding)

\* existing?.textContent === text
SameTextNeverMut(b, rng, text) == FALSE

SameTextMarker(b, rng, text) ==
    existing(b, rng) # 0 /\ MarkText(b, existing(b, rng)) = text

\* no text node touches gap g: a boundary point there is (parent, index)
NoChrAt(b, g) ==
    /\ ~(g >= 1 /\ IsChr(b[g]))
    /\ ~(g + 1 <= Len(b) /\ IsChr(b[g + 1]))

\* the Range of a selection from gap s to gap e of block blk; sEl and eEl tell
\* whether a boundary point is (parent, index) rather than a point of a text node
MakeRange(b, blk, s, e) ==
    [blk |-> blk, s |-> s, e |-> e, sEl |-> NoChrAt(b, s), eEl |-> NoChrAt(b, e)]

\* r.selectNode(mark); range.compareBoundaryPoints(END_TO_START, r) <= 0 &&
\* range.compareBoundaryPoints(START_TO_END, r) >= 0.
\* selectNode's boundary points are (parent, index); a boundary point of the range in
\* the same gap is equal to it when it is (parent, index) too, and lies on the far
\* side of it when it is a point of the neighbouring text node.
Overlaps(b, rng, i) ==
    LET j == MatchClose(b, i)
    IN /\ rng.s < j \/ (rng.s = j /\ rng.sEl)
       /\ rng.e > i - 1 \/ (rng.e = i - 1 /\ rng.eEl)

UnwrapWithContentMut(b, i) ==
    LET j == MatchClose(b, i)
    IN SubSeq(b, 1, i - 1) \o SubSeq(b, j + 1, Len(b))

\* unwrap(el): the children take the element's place; normalize() merges the text
Unwrap(b, i) ==
    LET j == MatchClose(b, i)
    IN SubSeq(b, 1, i - 1) \o SubSeq(b, i + 1, j - 1) \o SubSeq(b, j + 1, Len(b))

\* A live range follows the mutation: a boundary point inside the unwrapped element
\* is set to (element, 0) when its node is moved out, then to (parent, index of the
\* element) when the element is removed, which is the point after the moved children.
MoveGap(b, i, g) ==
    LET j == MatchClose(b, i)
    IN IF g < i THEN g ELSE IF g < j THEN j - 2 ELSE g - 2

\* text on both sides of gap g
MidText(b, g) == g >= 1 /\ g + 1 <= Len(b) /\ IsChr(b[g]) /\ IsChr(b[g + 1])

\* normalize() merges the text node at a (parent, index) boundary point into the
\* text before it, which makes it a point of that text, and removes an empty text
\* node, which makes a point in it (parent, index)
MoveRange(b, i, rng) ==
    LET b2 == Unwrap(b, i)
        s2 == MoveGap(b, i, rng.s)
        e2 == MoveGap(b, i, rng.e)
    IN [blk |-> rng.blk, s |-> s2, e |-> e2,
        sEl |-> ~MidText(b2, s2) /\ (rng.sEl \/ Inside(b, i, rng.s) \/ NoChrAt(b2, s2)),
        eEl |-> ~MidText(b2, e2) /\ (rng.eEl \/ Inside(b, i, rng.e) \/ NoChrAt(b2, e2))]

\* the live ranges of block blk follow the unwrapping of the element at token i
MoveLive(b, blk, i, live) ==
    [n \in 1..Len(live) |-> IF live[n].blk = blk THEN MoveRange(b, i, live[n]) ELSE live[n]]

\* for (const mark of root.querySelectorAll(...)) if (overlaps) unwrap(mark)
\* the static list is in document order; p is the next token to look at;
\* live[1] is the range being annotated, the others are ranges held elsewhere
UnwrapNothingMut(b, live, p) == [b |-> b, live |-> live]

RECURSIVE UnwrapOverlapping(_, _, _)
UnwrapOverlapping(b, live, p) ==
    IF p > Len(b) THEN [b |-> b, live |-> live]
    ELSE IF IsOpen(b[p]) /\ b[p].el = "mark" /\ Overlaps(b, live[1], p)
         THEN UnwrapOverlapping(Unwrap(b, p), MoveLive(b, live[1].blk, p, live), p)
         ELSE UnwrapOverlapping(b, live, p + 1)

\* surroundContents throws when the range partially contains a non-Text node
PartiallyContains(b, s, e) ==
    \/ Depth(b, e) # Depth(b, s)
    \/ \E g \in s..e : Depth(b, g) < Depth(b, s)

\* the tokens k of s+1..e that Keep accepts, in order
Picked(b, s, e, keep) == SelectSeq([k \in 1..(e - s) |-> s + k], LAMBDA k : k \in keep)

Reversed(q) == [k \in 1..Len(q) |-> q[Len(q) + 1 - k]]

\* range.extractContents(): the end tags of the elements that start before the
\* range and end in it, the start tags of those that start in it and end behind it
EndsIn(b, s, e)   == Picked(b, s, e, {k \in (s + 1)..e : IsClose(b[k]) /\ MatchOpen(b, k) <= s})
StartsIn(b, s, e) == Picked(b, s, e, {k \in (s + 1)..e : IsOpen(b[k]) /\ MatchClose(b, k) > e})

\* what extractContents leaves in the block: the partially contained elements keep
\* their tags and what they hold outside the range
ExtractRest(b, s, e) ==
    SubSeq(b, 1, s) \o [k \in 1..Len(EndsIn(b, s, e)) |-> b[EndsIn(b, s, e)[k]]]
        \o [k \in 1..Len(StartsIn(b, s, e)) |-> b[StartsIn(b, s, e)[k]]]
        \o SubSeq(b, e + 1, Len(b))

\* the fragment extractContents returns: the contents of the range inside clones of
\* the partially contained elements
Fragment(b, s, e) ==
    LET ends   == EndsIn(b, s, e)
        starts == StartsIn(b, s, e)
    IN Reversed([k \in 1..Len(ends) |-> b[MatchOpen(b, ends[k])]])
          \o SubSeq(b, s + 1, e)
          \o Reversed([k \in 1..Len(starts) |-> CloseEl(b[starts[k]].el)])

\* contents.querySelectorAll(".contxtly-highlight").forEach(unwrap)
WithoutMarks(frag) == SelectSeq(frag, LAMBDA tok : IsChr(tok) \/ tok.el # "mark")

\* range.surroundContents(mark); on an exception extractContents, unwrap the
\* markers of the fragment, append it to the mark, insertNode.
\* The remainders of partially contained elements stay where they are: those that
\* end inside the range before the new mark, those that start inside it after.
SurroundOrExtract(b, rng, text, tr) ==
    LET s == rng.s
        e == rng.e
        inner == SubSeq(b, s + 1, e)
    IN IF ~PartiallyContains(b, s, e)
       THEN SubSeq(b, 1, s) \o <<Open(text, tr)>> \o inner \o <<Close>>
                \o SubSeq(b, e + 1, Len(b))
       ELSE LET ends   == EndsIn(b, s, e)
                starts == StartsIn(b, s, e)
            IN SubSeq(b, 1, s) \o [k \in 1..Len(ends) |-> b[ends[k]]]
                   \o <<Open(text, tr)>> \o WithoutMarks(Fragment(b, s, e)) \o <<Close>>
                   \o [k \in 1..Len(starts) |-> b[starts[k]]]
                   \o SubSeq(b, e + 1, Len(b))

\* Another live range after surroundContents(rng): the text of the range is cut out
\* of its text node (a boundary point in the cut collapses to its start), nodes
\* wholly inside are removed (a boundary point in them goes behind), the text node
\* is split at the start of the range and the mark is inserted at the split.
SurroundMoveGap(b, rng, g, el) ==
    IF g <= rng.s THEN g
    ELSE IF g > rng.e THEN g + 2
    ELSE IF el /\ g = rng.e THEN g + 2
    ELSE IF \A k \in (rng.s + 1)..g : IsChr(b[k]) THEN rng.s
    ELSE rng.e + 2

SurroundMove(b, rng, r) ==
    [blk |-> r.blk,
     s   |-> SurroundMoveGap(b, rng, r.s, r.sEl),
     e   |-> SurroundMoveGap(b, rng, r.e, r.eEl),
     sEl |-> r.sEl,
     eEl |-> r.eEl]

\* n.parentElement.closest(SKIP): markers open at gap g
MarkDepth(b, g) ==
    Cardinality({k \in 1..g : IsOpen(b[k]) /\ b[k].el = "mark"})
        - Cardinality({k \in 1..g : IsClose(b[k]) /\ b[k].el = "mark"})

\* last token of the text node that starts at token p
RECURSIVE NodeEnd(_, _)
NodeEnd(b, p) == IF p < Len(b) /\ IsChr(b[p + 1]) THEN NodeEnd(b, p + 1) ELSE p

\* block?.textContent?.includes(context.slice(10, -10)), skipped for an empty context
ContextAlwaysMut(b, context) == TRUE

ContextMatches(b, context) ==
    context = Empty \/ Includes(Flat(b), JsSlice(context, ContextTrim, 0 - ContextTrim))

\* restoreHighlight's walk over the text nodes of one block, from token p on:
\* the range it surrounds, or NoRange
RECURSIVE RestoreWalk(_, _, _, _)
RestoreWalk(b, text, context, p) ==
    IF p > Len(b) THEN NoRange
    ELSE IF ~IsChr(b[p]) THEN RestoreWalk(b, text, context, p + 1)
    ELSE LET z    == NodeEnd(b, p)
             node == TextOf(b, p, z)
             idx  == IndexOf(node, text)
         IN IF MarkDepth(b, p - 1) = 0 /\ idx # -1 /\ ContextMatches(b, context)
            THEN [blk |-> 0, s |-> p - 1 + idx, e |-> p - 1 + idx + Len(text),
                  sEl |-> FALSE, eEl |-> FALSE]
            ELSE RestoreWalk(b, text, context, z + 1)

\* highlightRelatedWord's walk to the text node holding position targetPos of the
\* block's text: p is the next token, charCount the length of the text nodes passed.
\* A text node inside a marker is passed over, and range.setStart throws on the
\* negative localIdx of every later node.
NotFound == [node |-> 0, off |-> 0]

RECURSIVE LocateAbsoluteMut(_, _, _, _)
LocateAbsoluteMut(b, targetPos, p, charCount) ==
    IF p > Len(b) THEN NotFound
    ELSE IF ~IsChr(b[p]) THEN LocateAbsoluteMut(b, targetPos, p + 1, charCount)
    ELSE LET z       == NodeEnd(b, p)
             nodeLen == z - p + 1
         IN IF charCount + nodeLen > targetPos /\ MarkDepth(b, p - 1) = 0
               /\ targetPos - charCount >= 0
            THEN [node |-> p, off |-> targetPos]
            ELSE LocateAbsoluteMut(b, targetPos, z + 1, charCount + nodeLen)

RECURSIVE LocateWalk(_, _, _, _)
LocateWalk(b, targetPos, p, charCount) ==
    IF p > Len(b) THEN NotFound
    ELSE IF ~IsChr(b[p]) THEN LocateWalk(b, targetPos, p + 1, charCount)
    ELSE LET z       == NodeEnd(b, p)
             nodeLen == z - p + 1
         IN IF charCount + nodeLen > targetPos /\ MarkDepth(b, p - 1) = 0
               /\ targetPos - charCount >= 0
            THEN [node |-> p, off |-> targetPos - charCount]
            ELSE LocateWalk(b, targetPos, z + 1, charCount + nodeLen)


\* relatedWord.text || relatedWord, relatedWord.offset (hinted: offset != null)
Related(text, hinted, offset) == [text |-> text, hinted |-> hinted, offset |-> offset]

An      == <<"a", "n">>
AnDemTag == <<"a", "n", " ", "d", "e", "m", " ", "t", "a", "g", " ", "r", "u", "f", "t", " ", "e", "r", " ", "a", "n">>

\* translation?.related_words || [] of the payloads the backend answers with:
\* "sep" names the second "an" of AnDemTag by its offset in the sentence, "old" names
\* "an" without an offset
RelatedWords(tr) ==
    IF tr.id = "sep" THEN <<Related(An, TRUE, Len(AnDemTag) - Len(An))>>
    ELSE IF tr.id = "old" THEN <<Related(An, FALSE, 0)>>
    ELSE <<>>

\* translation?.context_translation?.source || ""
CtxSource(tr) == IF tr.id = "sep" THEN AnDemTag ELSE Empty

\* the range highlightRelatedWord surrounds in block b, or NoRange: the position the
\* offset names when the walk reaches it in a text node outside markers that holds
\* the whole word (setStart and setEnd throw otherwise, and the walk ends without a
\* range); else the first occurrence found by the plain search
RelatedRange(b, word, context) ==
    LET ctxStart == IndexOf(Flat(b), context)
        at == IF word.hinted /\ context # Empty /\ ctxStart # -1
              THEN LocateWalk(b, ctxStart + word.offset, 1, 0) ELSE NotFound
        fits == at # NotFound /\ at.off + Len(word.text) <= NodeEnd(b, at.node) - at.node + 1
    IN IF fits THEN [NoRange EXCEPT !.s = at.node - 1 + at.off,
                                    !.e = at.node - 1 + at.off + Len(word.text)]
       ELSE RestoreWalk(b, word.text, Empty, 1)

\* for (const word of related_words) highlightRelatedWord(block, word, translation,
\* ctxSentence), from the n-th word on: the block and the live ranges it leaves
RECURSIVE highlightRelatedWords(_, _, _, _, _)
highlightRelatedWords(b, blk, live, tr, n) ==
    IF n > Len(RelatedWords(tr)) THEN [b |-> b, live |-> live]
    ELSE LET word == RelatedWords(tr)[n]
             r    == RelatedRange(b, word, CtxSource(tr))
         IN IF r = NoRange THEN highlightRelatedWords(b, blk, live, tr, n + 1)
            ELSE highlightRelatedWords(
                     SurroundOrExtract(b, r, word.text, tr), blk,
                     [k \in 1..Len(live) |->
                         IF live[k].blk = blk THEN SurroundMove(b, r, live[k]) ELSE live[k]],
                     tr, n + 1)

PageUrl == "A"

\* highlightSelection(range, text, translation) with range = live[1]:
\* the document, the storage and the live ranges it leaves
highlightSelection(d, h, live, text, tr, now) ==
    LET rng == live[1]
        b   == d[rng.blk]
    IN IF SameTextMarker(b, rng, text) THEN [dom |-> d, highlights |-> h, live |-> live]
       ELSE LET un == IF existing(b, rng) # 0 \/ MarkOpens(b) # {}
                      THEN UnwrapOverlapping(b, live, 1)
                      ELSE [b |-> b, live |-> live]
                context == getContext(un.b, text)
                marked == SurroundOrExtract(un.b, un.live[1], text, tr)
                held == [n \in 1..Len(live) |->
                            IF n > 1 /\ un.live[n].blk = rng.blk
                            THEN SurroundMove(un.b, un.live[1], un.live[n])
                            ELSE un.live[n]]
                rel == highlightRelatedWords(marked, rng.blk, held, tr, 1)
            IN [dom |-> [d EXCEPT ![rng.blk] = rel.b],
                highlights |-> SaveHighlightResult(h, PageUrl, text, tr, context, now),
                live |-> [n \in 1..Len(live) |-> IF n = 1 THEN held[1] ELSE rel.live[n]]]

\* highlightSelection when the DOM refuses the new mark: surroundContents throws and
\* so does the fallback, in extractContents (lost = FALSE: nothing was taken out) or
\* in insertNode (lost = TRUE: the contents of the range were taken out before).
\* Both exceptions are caught; getContext ran before, saveHighlight runs after.
HighlightThrowsNoSaveMut(d, h, live, text, tr, now, lost) ==
    [dom |-> d, highlights |-> h, live |-> live]

highlightSelectionThrows(d, h, live, text, tr, now, lost) ==
    LET rng == live[1]
        b   == d[rng.blk]
    IN IF SameTextMarker(b, rng, text) THEN [dom |-> d, highlights |-> h, live |-> live]
       ELSE LET un == IF existing(b, rng) # 0 \/ MarkOpens(b) # {}
                      THEN UnwrapOverlapping(b, live, 1)
                      ELSE [b |-> b, live |-> live]
                context == getContext(un.b, text)
            IN [dom |-> [d EXCEPT ![rng.blk] =
                            IF lost THEN ExtractRest(un.b, un.live[1].s, un.live[1].e)
                            ELSE un.b],
                highlights |-> SaveHighlightResult(h, PageUrl, text, tr, context, now),
                live |-> un.live]

\* the walk over document.body, block k first
RECURSIVE RestoreFind(_, _, _, _)
RestoreFind(d, text, context, k) ==
    IF k > Len(d) THEN NoRange
    ELSE LET r == RestoreWalk(d[k], text, context, 1)
         IN IF r # NoRange THEN [r EXCEPT !.blk = k]
            ELSE RestoreFind(d, text, context, k + 1)

\* restoreHighlight(text, translation, context)
restoreHighlight(d, text, tr, context) ==
    LET r == RestoreFind(d, text, context, 1)
    IN IF r = NoRange THEN d
       ELSE [d EXCEPT ![r.blk] = SurroundOrExtract(d[r.blk], r, text, tr)]

\* restore(): the loop goes on to the next record whether or not a marker was drawn
RestoreStopOnMissMut(idx, n, found) == IF found /\ idx < n THEN idx + 1 ELSE 0

RestoreAdvance(idx, n, found) == IF idx < n THEN idx + 1 ELSE 0

\* data?.lemma || mark.textContent
MarkLemma(b, i) == OrElse(b[i].tr.lemma, MarkText(b, i))

\* removeHighlightFromDOM(lemma) within one block, from token p on
RECURSIVE UnwrapByLemma(_, _, _, _, _)
UnwrapByLemma(b, blk, lemma, live, p) ==
    IF p > Len(b) THEN [b |-> b, live |-> live]
    ELSE IF IsOpen(b[p]) /\ b[p].el = "mark" /\ MarkLemma(b, p) = lemma
         THEN UnwrapByLemma(Unwrap(b, p), blk, lemma, MoveLive(b, blk, p, live), p)
         ELSE UnwrapByLemma(b, blk, lemma, live, p + 1)

\* removeHighlightFromDOM(lemma), block k onwards: the document and the live ranges
RECURSIVE RemoveFromBlocks(_, _, _, _)
RemoveFromBlocks(d, lemma, live, k) ==
    IF k > Len(d) THEN [dom |-> d, live |-> live]
    ELSE LET u == UnwrapByLemma(d[k], k, lemma, live, 1)
         IN RemoveFromBlocks([d EXCEPT ![k] = u.b], lemma, u.live, k + 1)

removeHighlightFromDOM(d, lemma, live) == RemoveFromBlocks(d, lemma, live, 1)

\* mark.onclick: data?.lemma || text || mark.textContent
DeleteKey(b, i) == OrElse(OrElse(b[i].tr.lemma, b[i].text), MarkText(b, i))

----------------------------------------------------------------------------
(* Spec: one page, its storage list, annotation, deletion and reload *)

Bank    == <<"b", "a", "n", "k">>
TheBank == <<"t", "h", "e", " ", "b", "a", "n", "k">>
Bonk    == <<"b", "o", "n", "k">>

Block1 == <<"t", "h", "e", " ", "b", "a", "n", "k", " ", "b", "y", " ", "t", "h", "e", " ", "r", "i", "v", "e", "r", " ", "b", "a", "n", "k">>
Block2 == <<"a", " ", "b", "a", "n", "k", " ", "l", "o", "a", "n", " ", "f", "r", "o", "m", " ", "t", "h", "e", " ", "b", "a", "n", "k">>

PageText == <<Block1, Block2>>

MaxPageRecords == 2
MaxMarks       == 2

\* markers in the document
RECURSIVE MarkCount(_, _)
MarkCount(d, k) == IF k > Len(d) THEN 0 ELSE Cardinality(MarkOpens(d[k])) + MarkCount(d, k + 1)

FreshDom == [k \in 1..Len(PageText) |-> [n \in 1..Len(PageText[k]) |-> Chr(PageText[k][n])]]

\* what the user can select (block, character offsets) and what the backend answers
Sel(blk, from, to, resp) == [blk |-> blk, from |-> from, to |-> to, resp |-> resp]

Selections ==
    { Sel(1, 4, 8,   {Payload("r1", Empty), Payload("r2", Bank)}),
      Sel(1, 22, 26, {Payload("r1", Empty)}),
      Sel(2, 2, 6,   {Payload("r1", Empty)}),
      Sel(1, 0, 8,   {Payload("r3", Bank)}),
      Sel(1, 6, 11,  {Payload("r6", Empty)}) }

\* token of the n-th character of the block, Len(b) + 1 when there is none;
\* scan from token p
RECURSIVE CharToken(_, _, _)
CharToken(b, n, p) ==
    IF p > Len(b) THEN p
    ELSE IF IsChr(b[p]) THEN (IF n = 1 THEN p ELSE CharToken(b, n - 1, p + 1))
    ELSE CharToken(b, n, p + 1)

\* the boundary points at character offset c: after the c-th character, before the next
GapsAt(b, c) == (IF c = 0 THEN 0 ELSE CharToken(b, c, 1))..(CharToken(b, c + 1, 1) - 1)

\* a record whose text is no longer on the page
StaleRecord ==
    [text |-> Bonk, lemma |-> Bonk, translation |-> Payload("r7", Empty),
     context |-> Empty, timestamp |-> 0]

PageItems(h) == ItemsOf(h, PageUrl)

Init ==
    /\ highlights \in {<<>>, <<[url |-> PageUrl, items |-> <<StaleRecord>>]>>}
    /\ clock = 1
    /\ words = <<>>
    /\ notes = <<>>
    /\ ret = Null
    /\ lastOp = NoOp
    /\ dom = FreshDom
    /\ restoreIdx = IF highlights = <<>> THEN 0 ELSE 1
    /\ button = 0
    /\ tooltip = 0
    /\ attached = {}
    /\ requests = {}
    /\ nextEl = 1

\* the translation of a selection arrives: highlightSelection(range, text, res)
Annotate(sel, s, e, tr) ==
    LET rng  == MakeRange(dom[sel.blk], sel.blk, s, e)
        text == TextOf(dom[sel.blk], s + 1, e)
        res  == highlightSelection(dom, highlights, <<rng>>, text, tr, clock)
    IN /\ restoreIdx = 0
       /\ Len(PageItems(highlights)) < MaxPageRecords
       /\ MarkCount(dom, 1) < MaxMarks
       /\ s <= e
       /\ dom' = res.dom
       /\ highlights' = res.highlights
       /\ lastOp' = OpAt("annotate", PageUrl, text, Empty, tr,
                         IF SameTextMarker(dom[sel.blk], rng, text) THEN {} ELSE {text}, rng)
       /\ UNCHANGED <<clock, words, notes, ret, restoreIdx, uiVars>>

\* the translation of a selection arrives and the DOM refuses the new mark
AnnotateThrows(sel, s, e, tr, lost) ==
    LET rng  == MakeRange(dom[sel.blk], sel.blk, s, e)
        text == TextOf(dom[sel.blk], s + 1, e)
        res  == highlightSelectionThrows(dom, highlights, <<rng>>, text, tr, clock, lost)
    IN /\ restoreIdx = 0
       /\ Len(PageItems(highlights)) < MaxPageRecords
       /\ s <= e
       /\ dom' = res.dom
       /\ highlights' = res.highlights
       /\ lastOp' = OpAt("annotateThrows", PageUrl, text, getContext(res.dom[sel.blk], text), tr,
                         IF SameTextMarker(dom[sel.blk], rng, text) THEN {} ELSE {text}, rng)
       /\ UNCHANGED <<clock, words, notes, ret, restoreIdx, uiVars>>

\* click on a marker, then on the tooltip's delete control
DeleteClick(blk, i) ==
    LET lemma == DeleteKey(dom[blk], i)
    IN /\ restoreIdx = 0
       /\ i \in MarkOpens(dom[blk])
       /\ highlights' = RemoveFromStorageResult(highlights, PageUrl, lemma)
       /\ dom' = removeHighlightFromDOM(dom, lemma, <<>>).dom
       /\ lastOp' = OpAt("delete", PageUrl, lemma, Empty, dom[blk][i].tr, {},
                         [NoRange EXCEPT !.blk = blk, !.s = i])
       /\ UNCHANGED <<clock, words, notes, ret, restoreIdx, uiVars>>

\* the page is loaded again: a fresh document, then restore()
Reload ==
    /\ restoreIdx = 0
    /\ lastOp.op # "reload"
    /\ dom' = FreshDom
    /\ restoreIdx' = IF Len(PageItems(highlights)) = 0 THEN 0 ELSE 1
    /\ lastOp' = Op("reload", PageUrl, Empty, Empty, Null, {})
    /\ UNCHANGED <<highlights, clock, words, notes, ret, uiVars>>

\* restore(): restoreHighlight for the records from the n-th on, in stored order
RECURSIVE RestoreFrom(_, _, _)
RestoreFrom(d, items, n) ==
    IF n > Len(items) THEN d
    ELSE RestoreFrom(restoreHighlight(d, items[n].text, items[n].translation, items[n].context),
                     items, n + 1)

RestoreStepSavesMut ==
    /\ restoreIdx >= 1
    /\ restoreIdx <= Len(PageItems(highlights))
    /\ LET rec == PageItems(highlights)[restoreIdx]
           r   == RestoreFind(dom, rec.text, rec.context, 1)
       IN /\ dom' = restoreHighlight(dom, rec.text, rec.translation, rec.context)
          /\ restoreIdx' = 0
          /\ highlights' = SaveHighlightResult(highlights, PageUrl, rec.text, rec.translation,
                                               rec.context, clock)
          /\ lastOp' = OpAt("restore", PageUrl, rec.text, rec.context, rec.translation, {}, r)
    /\ UNCHANGED <<clock, words, notes, ret, uiVars>>

\* one iteration of restore()'s loop
RestoreStep ==
    /\ restoreIdx >= 1
    /\ restoreIdx <= Len(PageItems(highlights))
    /\ LET rec == PageItems(highlights)[restoreIdx]
           r   == RestoreFind(dom, rec.text, rec.context, 1)
       IN /\ dom' = restoreHighlight(dom, rec.text, rec.translation, rec.context)
          /\ restoreIdx' = RestoreAdvance(restoreIdx, Len(PageItems(highlights)), r # NoRange)
          /\ lastOp' = OpAt("restore", PageUrl, rec.text, rec.context, rec.translation, {}, r)
    /\ UNCHANGED <<highlights, clock, words, notes, ret, uiVars>>

Next ==
    \/ \E sel \in Selections : \E tr \in sel.resp :
         \E s \in GapsAt(dom[sel.blk], sel.from) : \E e \in GapsAt(dom[sel.blk], sel.to) :
            Annotate(sel, s, e, tr)
    \/ \E blk \in 1..Len(PageText) : \E i \in 1..Len(dom[blk]) : DeleteClick(blk, i)
    \/ Reload
    \/ RestoreStep

Spec == Init /\ [][Next]_vars

----------------------------------------------------------------------------
(* SpecFault: the page of Spec, freshly loaded with nothing stored, where  *)
(* the DOM may refuse a new mark                                           *)

InitFault ==
    /\ highlights = <<>>
    /\ clock = 1
    /\ words = <<>>
    /\ notes = <<>>
    /\ ret = Null
    /\ lastOp = NoOp
    /\ dom = FreshDom
    /\ restoreIdx = 0
    /\ button = 0
    /\ tooltip = 0
    /\ attached = {}
    /\ requests = {}
    /\ nextEl = 1

NextFault ==
    \/ \E sel \in Selections : \E tr \in sel.resp :
         \E s \in GapsAt(dom[sel.blk], sel.from) : \E e \in GapsAt(dom[sel.blk], sel.to) :
            Annotate(sel, s, e, tr)
    \/ \E sel \in Selections : \E tr \in sel.resp :
         \E s \in GapsAt(dom[sel.blk], sel.from) : \E e \in GapsAt(dom[sel.blk], sel.to) :
            \E lost \in BOOLEAN : AnnotateThrows(sel, s, e, tr, lost)

SpecFault == InitFault /\ [][NextFault]_vars

----------------------------------------------------------------------------
(* The content script: selection, translate button, tooltip, translation request *)

MAX_LENGTH == 500

IsSpace(c)       == c = " "
IsSentenceEnd(c) == c \in {".", "!", "?"}
IsLetterOrNum(c) == c \notin {" ", ".", "!", "?", ","}

\* String.prototype.trim
RECURSIVE TrimLeft(_)
TrimLeft(str) == IF str # Empty /\ IsSpace(Head(str)) THEN TrimLeft(Tail(str)) ELSE str

RECURSIVE TrimRight(_)
TrimRight(str) ==
    IF str # Empty /\ IsSpace(str[Len(str)]) THEN TrimRight(SubSeq(str, 1, Len(str) - 1))
    ELSE str

Trim(str) == TrimRight(TrimLeft(str))

\* findBoundary(text, pos, dir) for dir < 0, the scan being at index i (0-based)
RECURSIVE FindBackNoSpaceMut(_, _)
FindBackNoSpaceMut(text, i) ==
    IF i < 0 THEN 0
    ELSE IF i < Len(text) /\ IsSentenceEnd(text[i + 1]) /\ i + 1 < Len(text)
         THEN i + 2
         ELSE FindBackNoSpaceMut(text, i - 1)

RECURSIVE FindBack(_, _)
FindBack(text, i) ==
    IF i < 0 THEN 0
    ELSE IF i < Len(text) /\ IsSentenceEnd(text[i + 1]) /\ i + 1 < Len(text) /\ IsSpace(text[i + 2])
         THEN i + 2
         ELSE FindBack(text, i - 1)

\* findBoundary(text, pos, dir) for dir > 0
RECURSIVE FindForward(_, _)
FindForward(text, i) ==
    IF i >= Len(text) THEN Len(text)
    ELSE IF IsSentenceEnd(text[i + 1]) THEN i + 1
    ELSE FindForward(text, i + 1)

findBoundary(text, pos, dir) ==
    IF dir < 0 THEN FindBack(text, pos - 1) ELSE FindForward(text, pos)

\* getOffset(block, range.startContainer, range.startOffset): -1 when the container
\* is not a text node of the block
getOffset(b, rng) == IF rng.sEl THEN -1 ELSE CharOffset(b, rng.s)

\* the boundary point (node, localIdx) as a range
PointRange(blk, at) ==
    [blk |-> blk, s |-> at.node - 1 + at.off, e |-> at.node - 1 + at.off,
     sEl |-> FALSE, eEl |-> FALSE]

\* the context handed on when extractSentence returns null
NoContext == <<"null">>

\* extractSentence(selection)
ExtractSentenceEchoMut(b, rng) ==
    LET fullText == Flat(b)
        selected == Trim(TextOf(b, rng.s + 1, rng.e))
        start    == getOffset(b, rng)
    IN IF start = -1 THEN selected
       ELSE Trim(JsSlice(fullText, findBoundary(fullText, start, -1),
                         findBoundary(fullText, start + Len(selected), 1)))

extractSentence(b, rng) ==
    LET fullText == Flat(b)
        selected == Trim(TextOf(b, rng.s + 1, rng.e))
        start    == getOffset(b, rng)
        sentence == Trim(JsSlice(fullText, findBoundary(fullText, start, -1),
                                 findBoundary(fullText, start + Len(selected), 1)))
    IN IF start = -1 THEN NoContext
       ELSE IF sentence # selected THEN sentence ELSE NoContext

\* trimRange: index of the first letter, 0 when there is none
FirstLetter(text) ==
    LET at == {i \in 0..(Len(text) - 1) : IsLetterOrNum(text[i + 1])}
    IN IF at = {} THEN 0 ELSE MinOf(at)

\* trimRange: index behind the last letter, the length when there is none
LastLetterEnd(text) ==
    LET at == {i \in 0..(Len(text) - 1) : IsLetterOrNum(text[i + 1])}
    IN IF at = {} THEN Len(text) ELSE MaxOf(at) + 1

\* setStart / setEnd by an offset within the boundary's own text node
CanTrim(b, rng) ==
    LET text == TextOf(b, rng.s + 1, rng.e)
        from == FirstLetter(text)
        cut  == Len(text) - LastLetterEnd(text)
    IN /\ from > 0 => ~rng.sEl /\ rng.s + from <= Len(b)
                      /\ \A k \in (rng.s + 1)..(rng.s + from) : IsChr(b[k])
       /\ cut > 0 => ~rng.eEl /\ rng.e - cut >= 0
                     /\ \A k \in (rng.e - cut + 1)..rng.e : IsChr(b[k])

\* trimRange(selection)
trimRange(b, rng) ==
    LET text == TextOf(b, rng.s + 1, rng.e)
        from == FirstLetter(text)
        cut  == Len(text) - LastLetterEnd(text)
    IN [rng EXCEPT !.s = rng.s + from, !.e = rng.e - cut]

\* an element attached to document.body: the translate button with the closure of
\* its onclick, or the tooltip with its class, its content and the key of its
\* delete control (Empty: no delete control)
Element(id, kind, cls, content, key, text, context, rng) ==
    [id |-> id, kind |-> kind, cls |-> cls, content |-> content, key |-> key,
     text |-> text, context |-> context, rng |-> rng]

ButtonEl(id, text, context, rng) == Element(id, "button", "", Null, Empty, text, context, rng)

TooltipEl(id, cls, content, key) == Element(id, "tooltip", cls, content, key, Empty, Empty, NoRange)

\* el?.remove()
Detach(att, id) == {el \in att : el.id # id}

\* showButton: removeButton(), then append the new button
showButton(att, btn, el) == Detach(att, btn) \cup {el}

\* showTooltip and showTranslationTooltip: removeTooltip(), then append the new tooltip
ShowTooltipKeepOldMut(att, tip, el) == att \cup {el}

showTooltip(att, tip, el) == Detach(att, tip) \cup {el}

\* updateTooltip(content, isError, onDelete): acts on the tooltip slot
UpdateTooltipNoErrorMut(att, tip, content, isError, key) ==
    IF tip = 0 THEN att
    ELSE {IF el.id = tip
          THEN [el EXCEPT !.cls = "result", !.content = content, !.key = key]
          ELSE el : el \in att}

updateTooltip(att, tip, content, isError, key) ==
    IF tip = 0 THEN att
    ELSE {IF el.id = tip
          THEN [el EXCEPT !.cls = IF isError THEN "error" ELSE "result",
                          !.content = content,
                          !.key = IF isError THEN Empty ELSE key]
          ELSE el : el \in att}

\* a translation request under way: id is the tooltip showTooltip made for it
Request(id, text, context, rng, stage) ==
    [id |-> id, text |-> text, context |-> context, rng |-> rng, stage |-> stage]

ErrorAnswer  == Payload("error", Empty)
FailedAnswer == Payload("failed", Empty)

----------------------------------------------------------------------------
(* SpecUI: the events of the content script on one page *)

MaxEl       == 6    \* elements created
MaxRequests == 2    \* translation requests under way

\* what the user selects in SpecUI, and what the backend answers
UISelections ==
    { Sel(1, 4, 9, {Payload("r1", Empty)}),
      Sel(2, 2, 6, {Payload("r1", Empty)}) }

Outcomes(text) == {Payload("r1", Empty), ErrorAnswer, FailedAnswer}

InitUI ==
    /\ highlights = <<>>
    /\ clock = 1
    /\ words = <<>>
    /\ notes = <<>>
    /\ ret = Null
    /\ lastOp = NoOp
    /\ dom = FreshDom
    /\ restoreIdx = 0
    /\ button = 0
    /\ tooltip = 0
    /\ attached = {}
    /\ requests = {}
    /\ nextEl = 1

Event(op, id) == [Op(op, PageUrl, Empty, Empty, Null, {}) EXCEPT !.id = id]

\* dismissPopups(): removeButton(); removeTooltip()
Dismissed(att) == Detach(Detach(att, button), tooltip)

\* mouseup outside the extension's elements with nothing selected
MouseUpEmpty ==
    /\ attached' = Dismissed(attached)
    /\ button' = 0
    /\ tooltip' = 0
    /\ lastOp' = Event("event", 0)
    /\ UNCHANGED <<highlights, clock, words, notes, ret, dom, restoreIdx, requests, nextEl>>

\* mouseup outside the extension's elements with a selection from gap s to gap e
MouseUp(sel, s, e) ==
    LET b       == dom[sel.blk]
        rng     == MakeRange(b, sel.blk, s, e)
        raw     == Trim(TextOf(b, s + 1, e))
        context == extractSentence(b, rng)
        range   == trimRange(b, rng)
        text    == IF TextOf(b, range.s + 1, range.e) # Empty
                   THEN TextOf(b, range.s + 1, range.e) ELSE raw
    IN /\ s <= e
       /\ nextEl <= MaxEl
       /\ Len(raw) > 0 /\ Len(raw) < MAX_LENGTH
       /\ CanTrim(b, rng)
       /\ attached' = showButton(Dismissed(attached), 0, ButtonEl(nextEl, text, context, range))
       /\ button' = nextEl
       /\ tooltip' = 0
       /\ nextEl' = nextEl + 1
       /\ lastOp' = Event("event", 0)
       /\ UNCHANGED <<highlights, clock, words, notes, ret, dom, restoreIdx, requests>>

\* mousedown outside the extension's elements
MouseDown ==
    /\ attached' = Dismissed(attached)
    /\ button' = 0
    /\ tooltip' = 0
    /\ lastOp' = Event("event", 0)
    /\ UNCHANGED <<highlights, clock, words, notes, ret, dom, restoreIdx, requests, nextEl>>

\* What a mouse event can hit besides the page's own content: an attached element
\* of the extension (the node itself or one inside it), a marker, or an element of
\* the page inside a marker.
Transient(id)  == [kind |-> "transient", id |-> id, blk |-> 0, tok |-> 0]
OnPage(blk, i) == [kind |-> "page", id |-> 0, blk |-> blk, tok |-> i]

IsMarker(d, el) == IsOpen(d[el.blk][el.tok]) /\ d[el.blk][el.tok].el = "mark"

InMarker(d, el) ==
    IsOpen(d[el.blk][el.tok]) /\ d[el.blk][el.tok].el # "mark"
        /\ MarkDepth(d[el.blk], el.tok - 1) > 0

IsTarget(att, d, el) ==
    \/ el.kind = "transient" /\ \E a \in att : a.id = el.id
    \/ el.kind = "page" /\ (IsMarker(d, el) \/ InMarker(d, el))

TargetClass(att, d, el) ==
    IF el.kind = "transient" THEN (CHOOSE a \in att : a.id = el.id).kind
    ELSE IF IsMarker(d, el) THEN "marker" ELSE "inMarker"

\* isOwnElement(el): button?.contains(el) || tooltip?.contains(el) ||
\* el.classList?.contains("contxtly-highlight")
isOwnElement(btn, tip, d, el) ==
    \/ btn # 0 /\ el.kind = "transient" /\ el.id = btn
    \/ tip # 0 /\ el.kind = "transient" /\ el.id = tip
    \/ el.kind = "page" /\ IsMarker(d, el)

\* mouseup on such a target with nothing selected
MouseUpOn(el) ==
    /\ IsTarget(attached, dom, el)
    /\ IF isOwnElement(button, tooltip, dom, el)
       THEN UNCHANGED <<attached, button, tooltip>>
       ELSE /\ attached' = Dismissed(attached)
            /\ button' = 0
            /\ tooltip' = 0
    /\ lastOp' = [Event("mouseup", 0) EXCEPT !.target = TargetClass(attached, dom, el)]
    /\ UNCHANGED <<highlights, clock, words, notes, ret, dom, restoreIdx, requests, nextEl>>

\* mousedown on such a target
MouseDownOn(el) ==
    /\ IsTarget(attached, dom, el)
    /\ IF isOwnElement(button, tooltip, dom, el)
       THEN UNCHANGED <<attached, button, tooltip>>
       ELSE /\ attached' = Dismissed(attached)
            /\ button' = 0
            /\ tooltip' = 0
    /\ lastOp' = [Event("mousedown", 0) EXCEPT !.target = TargetClass(attached, dom, el)]
    /\ UNCHANGED <<highlights, clock, words, notes, ret, dom, restoreIdx, requests, nextEl>>

\* keydown Escape
KeyEscape ==
    /\ attached' = Dismissed(attached)
    /\ button' = 0
    /\ tooltip' = 0
    /\ lastOp' = Event("event", 0)
    /\ UNCHANGED <<highlights, clock, words, notes, ret, dom, restoreIdx, requests, nextEl>>

\* a click that reaches the document listener: removeTooltip()
ClickOutside ==
    /\ attached' = Detach(attached, tooltip)
    /\ tooltip' = 0
    /\ lastOp' = Event("event", 0)
    /\ UNCHANGED <<highlights, clock, words, notes, ret, dom, restoreIdx, button, requests, nextEl>>

\* click on the translate button: translate(...) up to its first await, removeButton()
ClickButton ==
    /\ button # 0
    /\ nextEl <= MaxEl
    /\ Cardinality(requests) < MaxRequests
    /\ \E el \in attached :
         /\ el.id = button
         /\ attached' = Detach(showTooltip(attached, tooltip, TooltipEl(nextEl, "loading", Null, Empty)),
                               button)
         /\ requests' = requests \cup {Request(nextEl, el.text, el.context, el.rng, "cache")}
    /\ tooltip' = nextEl
    /\ button' = 0
    /\ nextEl' = nextEl + 1
    /\ lastOp' = Event("translate", nextEl)
    /\ UNCHANGED <<highlights, clock, words, notes, ret, dom, restoreIdx>>

CacheAnswerAlwaysAsksMut(r) ==
    /\ r \in requests
    /\ r.stage = "cache"
    /\ attached' = attached
    /\ requests' = (requests \ {r}) \cup {[r EXCEPT !.stage = "net"]}
    /\ lastOp' = Event("request", r.id)
    /\ UNCHANGED <<highlights, clock, words, notes, ret, dom, restoreIdx, button, tooltip, nextEl>>

\* the cache lookup of a request returns
CacheAnswer(r) ==
    LET cached == getCachedTranslation(highlights, PageUrl, r.text, r.context)
    IN /\ r \in requests
       /\ r.stage = "cache"
       /\ IF cached # Null
          THEN /\ attached' = updateTooltip(attached, tooltip, cached, FALSE, r.text)
               /\ requests' = requests \ {r}
               /\ lastOp' = Event("cached", r.id)
          ELSE /\ attached' = attached
               /\ requests' = (requests \ {r}) \cup {[r EXCEPT !.stage = "net"]}
               /\ lastOp' = Event("request", r.id)
       /\ UNCHANGED <<highlights, clock, words, notes, ret, dom, restoreIdx, button, tooltip, nextEl>>

\* the ranges held by the button's closure and by the other requests follow the
\* mutation of the document
Follow(att, reqs, move(_)) ==
    [attached |-> {IF el.kind = "button" THEN [el EXCEPT !.rng = move(el.rng)] ELSE el : el \in att},
     requests |-> {[q EXCEPT !.rng = move(q.rng)] : q \in reqs}]

\* the backend answers with an error field, or sendMessage throws
ResponseFails(r, res) ==
    /\ r \in requests
    /\ r.stage = "net"
    /\ res \in {ErrorAnswer, FailedAnswer}
    /\ attached' = updateTooltip(attached, tooltip, res, TRUE, Empty)
    /\ requests' = requests \ {r}
    /\ lastOp' = [Event("failure", r.id) EXCEPT !.translation = res]
    /\ UNCHANGED <<highlights, clock, words, notes, ret, dom, restoreIdx, button, tooltip, nextEl>>

ResponseOkOnlyIfShownMut(r, res) ==
    LET after(x) == highlightSelection(dom, highlights, <<r.rng, x>>, r.text, res, clock)
        moved(x) == after(x).live[2]
        shown    == updateTooltip(attached, tooltip, res, FALSE, r.text)
        held     == Follow(shown, requests \ {r}, moved)
        gone     == \A el \in attached : el.id # r.id
    IN /\ r \in requests
       /\ r.stage = "net"
       /\ res \notin {ErrorAnswer, FailedAnswer}
       /\ Len(PageItems(highlights)) < MaxPageRecords
       /\ MarkCount(dom, 1) < MaxMarks
       /\ dom' = IF gone THEN dom ELSE after(r.rng).dom
       /\ highlights' = IF gone THEN highlights ELSE after(r.rng).highlights
       /\ attached' = IF gone THEN attached ELSE held.attached
       /\ requests' = IF gone THEN requests \ {r} ELSE held.requests
       /\ lastOp' = [Event("response", r.id) EXCEPT !.translation = res, !.text = r.text]
       /\ UNCHANGED <<clock, words, notes, ret, restoreIdx, button, tooltip, nextEl>>

\* the backend answers with a translation: updateTooltip, highlightSelection
ResponseOk(r, res) ==
    LET after(x) == highlightSelection(dom, highlights, <<r.rng, x>>, r.text, res, clock)
        moved(x) == after(x).live[2]
        shown    == updateTooltip(attached, tooltip, res, FALSE, r.text)
        held     == Follow(shown, requests \ {r}, moved)
    IN /\ r \in requests
       /\ r.stage = "net"
       /\ res \notin {ErrorAnswer, FailedAnswer}
       /\ Len(PageItems(highlights)) < MaxPageRecords
       /\ MarkCount(dom, 1) < MaxMarks
       /\ dom' = after(r.rng).dom
       /\ highlights' = after(r.rng).highlights
       /\ attached' = held.attached
       /\ requests' = held.requests
       /\ lastOp' = [Event("response", r.id) EXCEPT !.translation = res, !.text = r.text]
       /\ UNCHANGED <<clock, words, notes, ret, restoreIdx, button, tooltip, nextEl>>

\* click on a marker: showTranslationTooltip(data, createDeleteHandler(lemma))
ClickMarker(blk, i) ==
    /\ i \in MarkOpens(dom[blk])
    /\ nextEl <= MaxEl
    /\ attached' = showTooltip(attached, tooltip,
                               TooltipEl(nextEl, "result", dom[blk][i].tr, DeleteKey(dom[blk], i)))
    /\ tooltip' = nextEl
    /\ nextEl' = nextEl + 1
    /\ lastOp' = Event("event", 0)
    /\ UNCHANGED <<highlights, clock, words, notes, ret, dom, restoreIdx, button, requests>>

\* click on the tooltip's delete control: onDelete(), removeTooltip()
ClickDelete ==
    /\ tooltip # 0
    /\ \E el \in attached :
         /\ el.id = tooltip
         /\ el.key # Empty
         /\ LET moved(x) == removeHighlightFromDOM(dom, el.key, <<x>>).live[1]
                held     == Follow(Detach(attached, tooltip), requests, moved)
            IN /\ highlights' = RemoveFromStorageResult(highlights, PageUrl, el.key)
               /\ dom' = removeHighlightFromDOM(dom, el.key, <<>>).dom
               /\ attached' = held.attached
               /\ requests' = held.requests
         /\ lastOp' = [Event("delete", tooltip) EXCEPT !.text = el.key]
    /\ tooltip' = 0
    /\ UNCHANGED <<clock, words, notes, ret, restoreIdx, button, nextEl>>

NextUI ==
    \/ MouseUpEmpty
    \/ \E sel \in UISelections :
         \E s \in GapsAt(dom[sel.blk], sel.from) : \E e \in GapsAt(dom[sel.blk], sel.to) :
            MouseUp(sel, s, e)
    \/ MouseDown
    \/ KeyEscape
    \/ ClickOutside
    \/ ClickButton
    \/ \E r \in requests : CacheAnswer(r)
    \/ \E r \in requests : \E res \in Outcomes(r.text) : ResponseFails(r, res)
    \/ \E r \in requests : \E res \in Outcomes(r.text) : ResponseOk(r, res)
    \/ \E blk \in 1..Len(PageText) : \E i \in 1..Len(dom[blk]) : ClickMarker(blk, i)
    \/ ClickDelete

SpecUI == InitUI /\ [][NextUI]_vars

----------------------------------------------------------------------------
(* SpecTabs: the same page open in two tabs and the word list of the popup. *)
(* dom[t] is the document of tab t, one block                               *)
(*     the bank by the river bank                                           *)
(* and requests holds the removeHighlight messages on their way to a tab    *)

OpenTabs == {1, 2}

MaxMessages == 4    \* messages on their way

TabsDom == <<FreshDom[1], FreshDom[1]>>

TabSelections ==
    { Sel(1, 4, 8,   {Payload("r1", Empty)}),
      Sel(1, 6, 11,  {Payload("r6", Empty)}),
      Sel(2, 22, 26, {Payload("r2", Bank)}) }

\* { action: "removeHighlight", lemma } for one tab
Message(tab, lemma) == [tab |-> tab, lemma |-> lemma]

\* for (const tab of tabs) lemmas.forEach((lemma) => chrome.tabs.sendMessage(tab.id, ...))
Broadcast(lemmas) == {Message(tab, lemma) : tab \in OpenTabs, lemma \in lemmas}

\* the keys the word list shows and the user can tick
ListedKeys(h) == {KeyOf(AllWords(h)[i]) : i \in 1..Len(AllWords(h))}

InitTabs ==
    /\ highlights = <<>>
    /\ clock = 1
    /\ words = <<>>
    /\ notes = <<>>
    /\ ret = Null
    /\ lastOp = NoOp
    /\ dom = TabsDom
    /\ restoreIdx = 0
    /\ attached = {}
    /\ button = 0
    /\ tooltip = 0
    /\ requests = {}
    /\ nextEl = 1

\* popup: deleteSelected() with the storage write, the broadcast and loadWords()
DeleteSelectedInTabs(lemmas) ==
    /\ lemmas # {}
    /\ Cardinality(requests \cup Broadcast(lemmas)) <= MaxMessages
    /\ highlights' = deleteSelectedResult(highlights, lemmas)
    /\ requests' = requests \cup Broadcast(lemmas)
    /\ words' = loadWords(highlights')
    /\ lastOp' = Op("deleteSelected", "", Empty, Empty, Null, lemmas)
    /\ UNCHANGED <<clock, notes, ret, domVars, button, tooltip, attached, nextEl>>

\* content script of tab msg.tab: the onMessage listener
OnRemoveHighlight(msg) ==
    /\ msg \in requests
    /\ requests' = requests \ {msg}
    /\ dom' = [dom EXCEPT ![msg.tab] = UnwrapByLemma(dom[msg.tab], msg.tab, msg.lemma, <<>>, 1).b]
    /\ lastOp' = OpAt("removeHighlight", PageUrl, msg.lemma, Empty, Null, {},
                      [NoRange EXCEPT !.blk = msg.tab])
    /\ UNCHANGED <<storeVars, restoreIdx, button, tooltip, attached, nextEl>>

\* a selection is taken with the markers that touch its ends
NextTabs ==
    \/ \E sel \in TabSelections : \E tr \in sel.resp :
         Annotate(sel, MinOf(GapsAt(dom[sel.blk], sel.from)), MaxOf(GapsAt(dom[sel.blk], sel.to)), tr)
    \/ \E lemmas \in SUBSET ListedKeys(highlights) : DeleteSelectedInTabs(lemmas)
    \/ \E msg \in requests : OnRemoveHighlight(msg)

SpecTabs == InitTabs /\ [][NextTabs]_vars

----------------------------------------------------------------------------
(* SpecRelated: annotation with related words on a page of one block,       *)
(*     an dem tag ruft er an                                                *)
(* where the verb "ruft" has the related word "an" at the end               *)

Ruft == <<"r", "u", "f", "t">>
Anrufen == <<"a", "n", "r", "u", "f", "e", "n">>
ErAn == <<"e", "r", " ", "a", "n">>
Tag == <<"t", "a", "g">>

RelatedDom == <<[n \in 1..Len(AnDemTag) |-> Chr(AnDemTag[n])]>>

RelatedSelections ==
    { Sel(1, IndexOf(AnDemTag, Ruft), IndexOf(AnDemTag, Ruft) + Len(Ruft),
          {Payload("sep", Anrufen), Payload("old", Anrufen)}),
      Sel(1, IndexOf(AnDemTag, ErAn), Len(AnDemTag), {Payload("r1", Empty)}),
      Sel(1, 0, IndexOf(AnDemTag, Tag) - 1, {Payload("r1", Empty)}),
      Sel(1, IndexOf(AnDemTag, Tag), IndexOf(AnDemTag, Tag) + Len(Tag), {Payload("r1", Empty)}) }

InitRelated ==
    /\ highlights = <<>>
    /\ clock = 1
    /\ words = <<>>
    /\ notes = <<>>
    /\ ret = Null
    /\ lastOp = NoOp
    /\ dom = RelatedDom
    /\ restoreIdx = 0
    /\ attached = {}
    /\ button = 0
    /\ tooltip = 0
    /\ requests = {}
    /\ nextEl = 1

NextRelated ==
    \/ \E sel \in RelatedSelections : \E tr \in sel.resp :
         \E s \in GapsAt(dom[sel.blk], sel.from) : \E e \in GapsAt(dom[sel.blk], sel.to) :
            Annotate(sel, s, e, tr)
    \/ \E i \in 1..Len(dom[1]) : DeleteClick(1, i)

SpecRelated == InitRelated /\ [][NextRelated]_vars

----------------------------------------------------------------------------
(* SpecRepeat: a text is selected and translated, then selected and         *)
(* translated again, on a page whose second block holds two sentences:      *)
(*     we sat. the bank was shut                                            *)

WeSat == <<"w", "e", " ", "s", "a", "t", ".", " ", "t", "h", "e", " ", "b", "a", "n", "k", " ", "w", "a", "s", " ", "s", "h", "u", "t">>

RepeatDom == <<FreshDom[1], [n \in 1..Len(WeSat) |-> Chr(WeSat[n])]>>

RepeatSelections ==
    { Sel(1, 4, 8, {Payload("r1", Empty)}),
      Sel(2, 12, 16, {Payload("r1", Empty)}) }

InitRepeat ==
    /\ highlights = <<>>
    /\ clock = 1
    /\ words = <<>>
    /\ notes = <<>>
    /\ ret = Null
    /\ lastOp = NoOp
    /\ dom = RepeatDom
    /\ restoreIdx = 0
    /\ attached = {}
    /\ button = 0
    /\ tooltip = 0
    /\ requests = {}
    /\ nextEl = 1

NextRepeat ==
    \/ \E sel \in RepeatSelections :
         \E s \in GapsAt(dom[sel.blk], sel.from) : \E e \in GapsAt(dom[sel.blk], sel.to) :
            MouseUp(sel, s, e)
    \/ ClickButton
    \/ \E r \in requests : CacheAnswer(r)
    \/ \E r \in requests : \E res \in Outcomes(r.text) : ResponseOk(r, res)

SpecRepeat == InitRepeat /\ [][NextRepeat]_vars

----------------------------------------------------------------------------
(* SpecOwn: mouse events whose target is an element of the extension, a     *)
(* marker or an element inside a marker, on a page whose second block is    *)
(*     a <b>bank</b> loan from the bank                                     *)

BoldDom ==
    <<FreshDom[1],
      SubSeq(FreshDom[2], 1, 2) \o <<OpenEl("b")>> \o SubSeq(FreshDom[2], 3, 6)
          \o <<CloseEl("b")>> \o SubSeq(FreshDom[2], 7, Len(FreshDom[2]))>>

BoldSelection == Sel(2, 2, 6, {Payload("r1", Empty)})

\* the selection of the bold word taken with its element: the outermost boundary
\* points at the selection's two ends
OuterStart(b, sel) == CHOOSE s \in GapsAt(b, sel.from) : \A g \in GapsAt(b, sel.from) : s <= g
OuterEnd(b, sel)   == CHOOSE e \in GapsAt(b, sel.to) : \A g \in GapsAt(b, sel.to) : g <= e

InitOwn ==
    /\ highlights = <<>>
    /\ clock = 1
    /\ words = <<>>
    /\ notes = <<>>
    /\ ret = Null
    /\ lastOp = NoOp
    /\ dom = BoldDom
    /\ restoreIdx = 0
    /\ attached = {}
    /\ button = 0
    /\ tooltip = 0
    /\ requests = {}
    /\ nextEl = 1

NextOwn ==
    \/ MouseUp(BoldSelection, OuterStart(dom[2], BoldSelection), OuterEnd(dom[2], BoldSelection))
    \/ \E id \in 1..MaxEl : MouseUpOn(Transient(id))
    \/ \E blk \in 1..Len(PageText) : \E i \in 1..Len(dom[blk]) : MouseUpOn(OnPage(blk, i))
    \/ \E id \in 1..MaxEl : MouseDownOn(Transient(id))
    \/ \E blk \in 1..Len(PageText) : \E i \in 1..Len(dom[blk]) : MouseDownOn(OnPage(blk, i))
    \/ ClickButton
    \/ \E r \in requests : CacheAnswer(r)
    \/ \E r \in requests : \E res \in Outcomes(r.text) : ResponseOk(r, res)
    \/ \E blk \in 1..Len(PageText) : \E i \in 1..Len(dom[blk]) : ClickMarker(blk, i)

SpecOwn == InitOwn /\ [][NextOwn]_vars

----------------------------------------------------------------------------
(* SpecText: the content script's functions on a selection (the sentence    *)
(* boundary test, extractSentence, trimRange, the offset walks), each       *)
(* applied once to a block and a selection drawn from the sets below        *)

Pi       == <<"3", ".", "1", "4">>
DrSmith  == <<"D", "r", ".", " ", "S", "m", "i", "t", "h">>
Eg       == <<"e", ".", "g", ".">>
Wait     == <<"w", "a", "i", "t", ".", ".", ".">>
Sentence == <<"T", "h", "i", "s", " ", "i", "s", " ", "a", " ", "s", "e", "n", "t", "e", "n", "c", "e", ".", " ", "N", "e", "x", "t", ".">>
DrLee    == <<"D", "r", ".", " ", "L", "e", "e", " ", "a", "r", "r", "i", "v", "e", "d", ".", " ", "T", "h", "e", " ", "e", "p", "h", "e", "m", "e", "r", "a", "l", " ", "b", "l", "o", "o", "m", " ", "f", "e", "l", "l", ".">>
Hello    == <<" ", " ", "h", "e", "l", "l", "o", ",", " ", " ">>
Blank    == <<" ", " ", " ">>
Marks    == <<"?", "!">>
Ephemeral == <<"e", "p", "h", "e", "m", "e", "r", "a", "l">>
BloomFell == <<"T", "h", "e", " ", "e", "p", "h", "e", "m", "e", "r", "a", "l", " ", "b", "l", "o", "o", "m", " ", "f", "e", "l", "l", ".">>

Plain(str) == [n \in 1..Len(str) |-> Chr(str[n])]

\* <b>Dr.</b> <mark>Lee</mark> arrived. The ephemeral bloom fell.
DrLeeMarked ==
    <<OpenEl("b")>> \o Plain(SubSeq(DrLee, 1, 3)) \o <<CloseEl("b")>> \o Plain(<<" ">>)
        \o <<Open(SubSeq(DrLee, 5, 7), Payload("r1", Empty))>> \o Plain(SubSeq(DrLee, 5, 7))
        \o <<Close>> \o Plain(SubSeq(DrLee, 8, Len(DrLee)))

TextBlocks ==
    { Plain(Pi), Plain(DrSmith), Plain(Eg), Plain(Wait), Plain(Sentence), Plain(DrLee),
      Plain(Hello), Plain(Blank), Plain(Marks), DrLeeMarked }

InitText ==
    /\ highlights = <<>>
    /\ clock = 1
    /\ words = <<>>
    /\ notes = <<>>
    /\ ret = Null
    /\ lastOp = NoOp
    /\ dom \in {<<b>> : b \in TextBlocks}
    /\ restoreIdx = 0
    /\ button = 0
    /\ tooltip = 0
    /\ attached = {}
    /\ requests = {}
    /\ nextEl = 1

\* SENTENCE_END.test(text[i]): the test findBoundary makes at index i
SentenceEndAt(text, i) == IsSentenceEnd(text[i + 1])

\* findBoundary's loop reaches index i of the block's text
TestBoundary(i) ==
    /\ lastOp = NoOp
    /\ ret' = SentenceEndAt(Flat(dom[1]), i)
    /\ lastOp' = [Op("boundary", PageUrl, Flat(dom[1]), Empty, Null, {}) EXCEPT !.id = i]
    /\ UNCHANGED <<highlights, clock, words, notes, domVars, uiVars>>

\* extractSentence(selection) for a selection from gap s to gap e
ExtractSentence(s, e) ==
    LET b   == dom[1]
        rng == MakeRange(b, 1, s, e)
    IN /\ lastOp = NoOp
       /\ s <= e
       /\ ret' = extractSentence(b, rng)
       /\ lastOp' = OpAt("extract", PageUrl, Trim(TextOf(b, s + 1, e)), Empty, Null, {}, rng)
       /\ UNCHANGED <<highlights, clock, words, notes, domVars, uiVars>>

\* the offset walk for the position g of the block's text
Locate(g) ==
    /\ lastOp = NoOp
    /\ ret' = LocateWalk(dom[1], g, 1, 0)
    /\ lastOp' = [Op("locate", PageUrl, Empty, Empty, Null, {}) EXCEPT !.id = g]
    /\ UNCHANGED <<highlights, clock, words, notes, domVars, uiVars>>

\* trimRange(selection) for a selection of at least one character from gap s to
\* gap e whose characters to drop lie in the text nodes of its boundary points
TrimRange(s, e) ==
    LET b   == dom[1]
        rng == MakeRange(b, 1, s, e)
    IN /\ lastOp = NoOp
       /\ s < e
       /\ CanTrim(b, rng)
       /\ ret' = trimRange(b, rng)
       /\ lastOp' = OpAt("trim", PageUrl, TextOf(b, s + 1, e), Empty, Null, {}, rng)
       /\ UNCHANGED <<highlights, clock, words, notes, domVars, uiVars>>

NextText ==
    \/ \E i \in 0..(Len(Flat(dom[1])) - 1) : TestBoundary(i)
    \/ \E s, e \in 0..Len(dom[1]) : TrimRange(s, e)
    \/ \E g \in 0..Len(Flat(dom[1])) : Locate(g)
    \/ \E s, e \in 0..Len(dom[1]) : ExtractSentence(s, e)

SpecText == InitText /\ [][NextText]_vars

----------------
(* Claims about the storage layer, checked under SpecStore *)


\* the records of the page the last operation worked on
OpItems == ItemsOf(highlights, lastOp.url)

\* positions of the page's records with the literal text and the context of the call
OpMatches ==
    {i \in 1..Len(OpItems) :
        OpItems[i].text = lastOp.text /\ OpItems[i].context = lastOp.context}

\* C3 as stated: findCached(T, C) returns the payload P of any record saved with text T
\* and context C, and null when no record of the page has that text and that context.
C3_AsStated ==
    lastOp.op = "findCached" =>
        /\ \A i \in OpMatches : ret = OpItems[i].translation
        /\ OpMatches = {} => ret = Null

\* C3 amended: findCached(T, C) returns the payload of the earliest record of the page
\* saved with literal text T and context C (so P when no earlier record has the same
\* text and context), and null when no record has that text and that context, whatever
\* the canonical forms are.
C3_CacheRoundTrip ==
    lastOp.op = "findCached" =>
        /\ OpMatches # {} => ret = OpItems[MinOf(OpMatches)].translation
        /\ OpMatches = {} => ret = Null

\* a hit on a text saved twice in the same context, and a miss on a record whose
\* canonical form (not its text) is the text asked for
C3_Witness ==
    /\ lastOp.op = "findCached"
    /\ ret # Null
    /\ Cardinality(OpMatches) >= 2

C3_WitnessMiss ==
    /\ lastOp.op = "findCached"
    /\ ret = Null
    /\ \E i \in 1..Len(OpItems) :
          KeyOf(OpItems[i]) = lastOp.text /\ OpItems[i].context = lastOp.context

\* C4: remove(key) deletes from the page's list exactly the records whose key (lemma,
\* else text) is key and keeps every other record in its original order; other pages'
\* lists are untouched.
C4_RemoveByKey ==
    [][lastOp'.op = "remove" =>
          /\ ItemsOf(highlights', lastOp'.url) =
                SelectSeq(ItemsOf(highlights, lastOp'.url),
                          LAMBDA r : OrElse(r.lemma, r.text) # lastOp'.text)
          /\ \A u \in Urls \ {lastOp'.url} :
                ItemsOf(highlights', u) = ItemsOf(highlights, u)]_vars

\* one call removed two records of different literal texts and kept another record
C4_Witness ==
    /\ lastOp.op = "remove"
    /\ Cardinality(lastOp.keys) >= 2
    /\ OpItems # <<>>

IsAppend(old, new) == Len(new) = Len(old) + 1 /\ SubSeq(new, 1, Len(old)) = old

\* C5 as stated: a save appends the new record and keeps the others; only remove
\* ever deletes or changes stored records.
C5_AsStated ==
    [][/\ lastOp'.op = "save" =>
             /\ IsAppend(ItemsOf(highlights, lastOp'.url), ItemsOf(highlights', lastOp'.url))
             /\ \A u \in Urls \ {lastOp'.url} : ItemsOf(highlights', u) = ItemsOf(highlights, u)
       /\ lastOp'.op # "remove" =>
             \A u \in Urls :
                 Len(ItemsOf(highlights', u)) >= Len(ItemsOf(highlights, u))
                 /\ SubSeq(ItemsOf(highlights', u), 1, Len(ItemsOf(highlights, u)))
                        = ItemsOf(highlights, u)]_vars

\* C5 amended: a save appends the new record (its text, payload and context) last and
\* keeps every older record of the page unmodified and in order; only remove and the
\* word list's delete ever delete stored records, and nothing changes one in place.
C5_SaveAppends ==
    [][/\ lastOp'.op = "save" =>
             LET old == ItemsOf(highlights, lastOp'.url)
                 new == ItemsOf(highlights', lastOp'.url)
             IN /\ IsAppend(old, new)
                /\ new[Len(new)].text = lastOp'.text
                /\ new[Len(new)].translation = lastOp'.translation
                /\ new[Len(new)].context = lastOp'.context
                /\ \A u \in Urls \ {lastOp'.url} :
                      ItemsOf(highlights', u) = ItemsOf(highlights, u)
       /\ lastOp'.op \notin {"remove", "deleteSelected"} =>
             \A u \in Urls :
                 Len(ItemsOf(highlights', u)) >= Len(ItemsOf(highlights, u))
                 /\ SubSeq(ItemsOf(highlights', u), 1, Len(ItemsOf(highlights, u)))
                        = ItemsOf(highlights, u)
       /\ lastOp'.op \in {"remove", "deleteSelected"} =>
             \A u \in Urls :
                 \A r \in Range(ItemsOf(highlights', u)) : r \in Range(ItemsOf(highlights, u))]_vars

\* a save onto a page that already held two records
C5_Witness ==
    /\ lastOp.op = "save"
    /\ Len(OpItems) >= 3

IsWordList(list, h) ==
    LET all == AllWords(h)
    IN /\ \A i, j \in 1..Len(list) : i # j => KeyOf(list[i]) # KeyOf(list[j])
       /\ {KeyOf(list[i]) : i \in 1..Len(list)} = {KeyOf(all[i]) : i \in 1..Len(all)}
       /\ \A i \in 1..Len(list) :
             /\ list[i] \in Range(all)
             /\ \A r \in Range(all) :
                   KeyOf(r) = KeyOf(list[i]) => r.timestamp <= list[i].timestamp
       /\ \A i, j \in 1..Len(list) : i < j => list[i].timestamp >= list[j].timestamp

\* C6: the list built for the word listing and for the export holds exactly one entry
\* per key (lemma, else text) over the records of all pages, that entry being a most
\* recent record with that key, ordered most recent first.
C6_WordList ==
    /\ lastOp.op \in {"loadWords", "deleteSelected"} => IsWordList(words, highlights)
    /\ lastOp.op = "export" => IsWordList(notes, highlights)

\* two records of different texts and one lemma, on different pages, listed as one entry
\* next to another entry
C6_Witness ==
    /\ lastOp.op = "loadWords"
    /\ Len(words) = 2
    /\ \E r1, r2 \in Range(AllWords(highlights)) :
          r1.text # r2.text /\ KeyOf(r1) = KeyOf(r2) /\ r1.url # r2.url

C6_WitnessExport ==
    /\ lastOp.op = "export"
    /\ Len(notes) = 1
    /\ Len(AllWords(highlights)) = 3

----------------------------------------------------------------------------
(* Claims about the document, checked under Spec *)

\* the characters a marker holds, as offsets into the block's text
SpanFrom(b, i) == CharOffset(b, i)
SpanTo(b, i)   == CharOffset(b, MatchClose(b, i))

\* the markers of block b that share a character with, or sit inside, lo..hi
MarksIn(b, lo, hi) ==
    {i \in MarkOpens(b) :
        \/ SpanFrom(b, i) < hi /\ SpanTo(b, i) > lo
        \/ SpanFrom(b, i) = SpanTo(b, i) /\ lo <= SpanFrom(b, i) /\ SpanFrom(b, i) <= hi}

\* the step annotates a span that overlaps markers of a different span
AnnotatesOverlap ==
    /\ lastOp'.op = "annotate"
    /\ LET rng  == lastOp'.rng
           b    == dom[rng.blk]
           hit  == {i \in MarkOpens(b) : Overlaps(b, rng, i)}
       IN /\ hit # {}
          /\ \E i \in hit : <<SpanFrom(b, i), SpanTo(b, i)>>
                               # <<CharOffset(b, rng.s), CharOffset(b, rng.e)>>
          /\ ~(\E i \in MarkOpens(b) :
                  Inside(b, i, rng.s) /\ Inside(b, i, rng.e) /\ MarkText(b, i) = lastOp'.text)

\* afterwards one marker covers the region, and it holds the new span
OneMarkerForNewSpan ==
    LET rng  == lastOp'.rng
        b    == dom[rng.blk]
        b2   == dom'[rng.blk]
        cs   == CharOffset(b, rng.s)
        ce   == CharOffset(b, rng.e)
        hit  == {i \in MarkOpens(b) : Overlaps(b, rng, i)}
        lo   == MinOf({cs} \cup {SpanFrom(b, i) : i \in hit})
        hi   == MaxOf({ce} \cup {SpanTo(b, i) : i \in hit})
        now  == MarksIn(b2, lo, hi)
    IN /\ Cardinality(now) = 1
       /\ \A m \in now :
            /\ SpanFrom(b2, m) = cs
            /\ SpanTo(b2, m) = ce
            /\ MarkText(b2, m) = lastOp'.text
            /\ b2[m].text = lastOp'.text
            /\ b2[m].tr = lastOp'.translation

\* C1: annotating a span that overlaps existing markers of a different span
\* unwraps every overlapped marker and leaves exactly one marker over the region,
\* and that marker carries the new span's text and translation
C1_AsStated == [][AnnotatesOverlap => OneMarkerForNewSpan]_vars

\* the same, for a new span that holds every marker it overlaps
C1_Enclosing ==
    [][(/\ AnnotatesOverlap
        /\ LET rng == lastOp'.rng
               b   == dom[rng.blk]
           IN \A i \in MarkOpens(b) :
                 Overlaps(b, rng, i) => rng.s < i /\ MatchClose(b, i) <= rng.e)
       => OneMarkerForNewSpan]_vars

C1_EnclosingWitness ==
    /\ lastOp.op = "annotate"
    /\ lastOp.text = TheBank
    /\ \E i \in MarkOpens(dom[1]) : MarkText(dom[1], i) = TheBank
    /\ Len(PageItems(highlights)) = 2

\* the range of the step lies in a marker whose text is the text given
AnnotatesSameText ==
    /\ lastOp'.op = "annotate"
    /\ LET rng == lastOp'.rng
           b   == dom[rng.blk]
       IN \E i \in MarkOpens(b) :
             /\ Inside(b, i, rng.s) /\ Inside(b, i, rng.e)
             /\ \A n \in MarkOpens(b) : Inside(b, n, rng.s) /\ Inside(b, n, rng.e) => n <= i
             /\ MarkText(b, i) = lastOp'.text

\* C2: annotating a range inside a marker whose text equals the given text
\* changes neither the document nor the stored list
C2_Idempotent == [][AnnotatesSameText => dom' = dom /\ highlights' = highlights]_vars

C2_Witness ==
    /\ lastOp.op = "annotate"
    /\ lastOp.keys = {}
    /\ lastOp.translation = Payload("r2", Bank)
    /\ \E i \in MarkOpens(dom[1]) :
          MarkText(dom[1], i) = Bank /\ dom[1][i].tr = Payload("r1", Empty)
    /\ Len(PageItems(highlights)) = 1

\* the middle of a stored context
Middle(context) == SubSeq(context, ContextTrim + 1, Len(context) - ContextTrim)

\* an occurrence of the text starts at token p of block k, in one text node,
\* outside every marker, in a block whose text holds the middle of the context
Qualifies(d, k, p, text, context) ==
    /\ p + Len(text) - 1 <= Len(d[k])
    /\ \A n \in 1..Len(text) : IsChr(d[k][p + n - 1]) /\ d[k][p + n - 1].c = text[n]
    /\ MarkDepth(d[k], p - 1) = 0
    /\ \/ context = Empty
       \/ \E at \in 0..Len(Flat(d[k])) : OccursAt(Flat(d[k]), Middle(context), at)

QualifyingSet(d, text, context) ==
    {q \in UNION {{<<k, p>> : p \in 1..Len(d[k])} : k \in 1..Len(d)} :
        Qualifies(d, q[1], q[2], text, context)}

FirstOf(Q) == CHOOSE q \in Q : \A r \in Q : q[1] < r[1] \/ (q[1] = r[1] /\ q[2] <= r[2])

WrappedAt(d, q, text, tr) ==
    LET b == d[q[1]]
        p == q[2]
    IN [d EXCEPT ![q[1]] = SubSeq(b, 1, p - 1) \o <<Open(text, tr)>>
                              \o SubSeq(b, p, p + Len(text) - 1) \o <<Close>>
                              \o SubSeq(b, p + Len(text), Len(b))]

\* C7: restoring a record (T, C) wraps the first occurrence of T that lies in a
\* single text node outside every marker and in a block whose text contains the
\* middle of C, and nothing else
C7_RestoreFirstQualifying ==
    [][lastOp'.op = "restore" =>
         LET Q == QualifyingSet(dom, lastOp'.text, lastOp'.context)
         IN /\ highlights' = highlights
            /\ Q # {} => dom' = WrappedAt(dom, FirstOf(Q), lastOp'.text, lastOp'.translation)
            /\ Q = {} => dom' = dom]_vars

\* a marker drawn in the second block although the first holds the text unmarked
C7_Witness ==
    /\ lastOp.op = "restore"
    /\ lastOp.text = Bank
    /\ lastOp.rng.blk = 2
    /\ MarkOpens(dom[1]) = {}
    /\ MarkOpens(dom[2]) # {}

\* a marker drawn on the second occurrence because the first is already marked
C7_WitnessSkipsMarked ==
    /\ lastOp.op = "restore"
    /\ lastOp.text = Bank
    /\ lastOp.rng.blk = 1
    /\ Cardinality(MarkOpens(dom[1])) = 2

\* C8: a record without a qualifying occurrence is skipped: the document and the
\* stored list stay as they are and the loop goes on with the next record
C8_MissIsSkipped ==
    [][(lastOp'.op = "restore" /\ QualifyingSet(dom, lastOp'.text, lastOp'.context) = {})
         => /\ dom' = dom
            /\ highlights' = highlights
            /\ restoreIdx' = IF restoreIdx < Len(PageItems(highlights))
                             THEN restoreIdx + 1 ELSE 0]_vars

C8_Witness ==
    /\ lastOp.op = "restore"
    /\ lastOp.rng = NoRange
    /\ restoreIdx = 2
    /\ MarkOpens(dom[1]) = {}
    /\ MarkOpens(dom[2]) = {}

----------------------------------------------------------------------------
(* Claims about the content script's elements, checked under SpecUI *)

Tooltips(att) == {el \in att : el.kind = "tooltip"}
Buttons(att)  == {el \in att : el.kind = "button"}

\* the step delivers the response or the failure of a request whose tooltip is gone
StaleAnswer ==
    /\ lastOp'.op \in {"response", "failure"}
    /\ ~(\E el \in attached : el.id = lastOp'.id)

\* C9: once the tooltip made for a request has been removed, the response or
\* failure of that request changes no displayed tooltip
C9_AsStated == [][StaleAnswer => Tooltips(attached') = Tooltips(attached)]_vars

\* the same while no tooltip is displayed
C9_NoTooltipShown ==
    [][(StaleAnswer /\ tooltip = 0) => Tooltips(attached') = {} /\ tooltip' = 0]_vars

\* C10: at most one translate button and at most one tooltip are attached, and the
\* button and tooltip slots refer to exactly the attached elements
C10_OneOfEach ==
    /\ Cardinality(Buttons(attached)) <= 1
    /\ Cardinality(Tooltips(attached)) <= 1
    /\ {el.id : el \in Buttons(attached)} = {button} \ {0}
    /\ {el.id : el \in Tooltips(attached)} = {tooltip} \ {0}

\* a tooltip has replaced an earlier one while a button is shown
C10_Witness ==
    /\ button # 0
    /\ tooltip > button
    /\ Cardinality(attached) = 2

\* the step delivers a failure: the response carries an error field (which is also
\* what the background script answers when the request throws there or the backend's
\* status is not a success), or sendMessage itself throws
Fails == lastOp'.op = "failure"

\* C11: when the translation fails, the tooltip made for the request, if still
\* displayed, enters the error state and shows the failure; no marker is drawn, no
\* record is saved, and the request is over: it is not issued again, and a
\* request is only ever issued for a click that has not been answered yet
C11_FailureShown ==
    [][/\ Fails =>
            /\ \A el \in attached :
                  el.id = lastOp'.id =>
                     \E el2 \in attached' :
                        /\ el2.id = el.id /\ el2.kind = "tooltip"
                        /\ el2.cls = "error"
                        /\ el2.content = lastOp'.translation
                        /\ el2.key = Empty
            /\ dom' = dom
            /\ highlights' = highlights
            /\ \E r \in requests : r.id = lastOp'.id /\ requests' = requests \ {r}
            /\ nextEl' = nextEl
       /\ lastOp'.op = "request" =>
            \E r \in requests : r.id = lastOp'.id /\ r.stage = "cache"
       /\ \A q \in requests' : (\A r \in requests : r.id # q.id) => q.id = nextEl /\ nextEl' > nextEl
       /\ \A q \in requests : q.id < nextEl]_vars

\* a request has failed while its tooltip was displayed, in either way
C11_Witness ==
    /\ lastOp.op = "failure"
    /\ lastOp.translation = FailedAnswer
    /\ \E el \in attached : el.id = lastOp.id /\ el.cls = "error"
    /\ requests # {}

C11_WitnessErrorField ==
    /\ lastOp.op = "failure"
    /\ lastOp.translation = ErrorAnswer
    /\ \E el \in attached : el.id = lastOp.id /\ el.cls = "error"


----------------------------------------------------------------------------
(* Claims about a refused mark, checked under SpecFault *)

AllMarks(d) == UNION {{<<k, i>> : i \in MarkOpens(d[k])} : k \in 1..Len(d)}

\* the step annotates, gets past the idempotence check, and both ways of drawing throw
DrawingFails == lastOp'.op = "annotateThrows" /\ lastOp'.keys # {}

C12_WitnessLost ==
    /\ lastOp.op = "annotateThrows"
    /\ lastOp.keys # {}
    /\ Len(PageItems(highlights)) = 1
    /\ Len(dom[1]) < Len(Block1)


----------------------------------------------------------------------------
(* Claims about the functions on a selection, checked under SpecText *)

\* C13 as stated: the sentence-boundary test of context extraction is false for
\* every '.' inside "3.14", "Dr. Smith", "e.g." and "wait...", and true for the
\* final '.' of "This is a sentence. Next."
C13_AsStated ==
    lastOp.op = "boundary" =>
        /\ (lastOp.text \in {Pi, DrSmith, Eg, Wait} /\ lastOp.text[lastOp.id + 1] = ".")
              => ret = FALSE
        /\ (lastOp.text = Sentence /\ lastOp.id = Len(Sentence) - 1) => ret = TRUE

\* what the code's test does: true on every '.', '!' and '?', false elsewhere
C13_EveryMarkEnds ==
    lastOp.op = "boundary" => (ret = TRUE <=> lastOp.text[lastOp.id + 1] \in {".", "!", "?"})


\* the selection of the step: where it starts in the block's text and its trimmed text
SelStart == CharOffset(dom[1], lastOp.rng.s)
SelText  == lastOp.text

\* indices of the block's text holding a sentence-ending mark
MarksAt(full) == {i \in 0..(Len(full) - 1) : full[i + 1] \in {".", "!", "?"}}

\* the window of C14: from two past the nearest mark before the selection start that
\* is followed by whitespace (0 if none) to one past the first mark at or after
\* selection start + selected length (the text length if none), trimmed
SentenceWindow(full, start, len) ==
    LET backs == {i \in MarksAt(full) : i < start /\ i + 1 < Len(full) /\ full[i + 2] = " "}
        fwds  == {i \in MarksAt(full) : i >= start + len}
        from  == IF backs = {} THEN 0 ELSE MaxOf(backs) + 2
        to    == IF fwds = {} THEN Len(full) ELSE MinOf(fwds) + 1
    IN Trim(SubSeq(full, from + 1, to))

\* C14: extractSentence returns the trimmed window described above (unless the
\* selection's start is in no text node of the block or the window is the selection
\* itself, the cases of C15); for the text "Dr. Lee arrived. The ephemeral bloom
\* fell." and the selection "ephemeral" it returns "The ephemeral bloom fell."
C14_SentenceWindow ==
    lastOp.op = "extract" =>
        /\ (~lastOp.rng.sEl /\ SentenceWindow(Flat(dom[1]), SelStart, Len(SelText)) # SelText)
              => ret = SentenceWindow(Flat(dom[1]), SelStart, Len(SelText))
        /\ (Flat(dom[1]) = DrLee /\ SelText = Ephemeral /\ SelStart = 21) => ret = BloomFell

\* the example of C14, on the block without and with inline elements and a marker
C14_Witness ==
    /\ lastOp.op = "extract"
    /\ dom[1] = Plain(DrLee)
    /\ SelText = Ephemeral
    /\ ret = BloomFell

C14_WitnessMarked ==
    /\ lastOp.op = "extract"
    /\ dom[1] = DrLeeMarked
    /\ SelText = Ephemeral
    /\ ret = BloomFell

\* C15: extractSentence returns null, and never the selection, when the trimmed
\* window is the trimmed selection, and null when the selection's start is not in a
\* text node of the block
C15_NullNotSelection ==
    lastOp.op = "extract" =>
        /\ ~lastOp.rng.sEl /\ SentenceWindow(Flat(dom[1]), SelStart, Len(SelText)) = SelText
              => ret = NoContext
        /\ lastOp.rng.sEl => ret = NoContext
        /\ ret # SelText

\* the selection is the whole second sentence
C15_Witness ==
    /\ lastOp.op = "extract"
    /\ Flat(dom[1]) = DrLee
    /\ SelText = BloomFell
    /\ ret = NoContext

\* the selection starts at the block's edge, before the <b> element
C15_WitnessNotFound ==
    /\ lastOp.op = "extract"
    /\ lastOp.rng.sEl
    /\ SelText # Empty
    /\ ret = NoContext


\* the character at position g of the block's text lies in a marker
CharInMarker(b, g) == MarkDepth(b, CharToken(b, g + 1, 1) - 1) > 0

HasLetter(text) == \E n \in 1..Len(text) : IsLetterOrNum(text[n])

\* the text of the span trimRange returned
Trimmed == TextOf(dom[1], ret.s + 1, ret.e)

\* the span returned lies in the selection and its text starts and ends on a letter
\* or digit
TrimsToLetters ==
    /\ ret # NoRange
    /\ lastOp.rng.s <= ret.s /\ ret.s <= ret.e /\ ret.e <= lastOp.rng.e
    /\ Trimmed # Empty
    /\ IsLetterOrNum(Trimmed[1]) /\ IsLetterOrNum(Trimmed[Len(Trimmed)])

\* C17 as stated: trim returns null when the selection's text holds no letter or
\* digit; otherwise it returns a sub-span of the selection, never larger, whose text
\* starts and ends on a letter or digit ("  hello,  " becomes "hello")
C17_AsStated ==
    lastOp.op = "trim" =>
        /\ ~HasLetter(lastOp.text) => ret = NoRange
        /\ HasLetter(lastOp.text) => TrimsToLetters
        /\ lastOp.text = Hello => Trimmed = SubSeq(Hello, 3, 7)

\* what the code does: a selection without a letter or digit comes back as it is
C17_Untrimmed ==
    lastOp.op = "trim" =>
        /\ ~HasLetter(lastOp.text) => ret = lastOp.rng
        /\ HasLetter(lastOp.text) => TrimsToLetters
        /\ lastOp.text = Hello => Trimmed = SubSeq(Hello, 3, 7)

----------------------------------------------------------------------------
(* Claims about the extension's own elements as event targets (SpecOwn)     *)

\* the step is a mousedown or mouseup on a target of one of the given classes
HitsTarget(classes) ==
    lastOp'.op \in {"mousedown", "mouseup"} /\ lastOp'.target \in classes

\* nothing displayed is dismissed and no translation is offered or started
NothingHappens ==
    /\ attached' = attached
    /\ button' = button
    /\ tooltip' = tooltip
    /\ requests' = requests
    /\ nextEl' = nextEl

\* C18 as stated: a mousedown or mouseup whose target lies inside the displayed
\* button, the displayed tooltip or a drawn marker (the marker element or one of its
\* descendants) neither dismisses the button and tooltip nor starts a translation
C18_AsStated ==
    [][HitsTarget({"button", "tooltip", "marker", "inMarker"}) => NothingHappens]_vars

\* what the code does: it holds for the button, the tooltip and the marker element
C18_OwnTargets ==
    [][HitsTarget({"button", "tooltip", "marker"}) => NothingHappens]_vars

\* a mousedown or mouseup went to an element inside a marker
C18_InsideMarkerHit ==
    lastOp.op \in {"mousedown", "mouseup"} /\ lastOp.target = "inMarker"

----------------------------------------------------------------------------
(* Claims about unwrapping (Spec)                                           *)

\* the markers of block b in document order, without those Gone accepts: where each
\* starts in the block's text, the text it holds and the data it carries
MarksKept(b, Gone(_)) ==
    LET at == Picked(b, 0, Len(b), {k \in MarkOpens(b) : ~Gone(k)})
    IN [n \in 1..Len(at) |->
           [from |-> CharOffset(b, at[n]), holds |-> MarkText(b, at[n]),
            text |-> b[at[n]].text, tr |-> b[at[n]].tr]]

MarkList(b) == MarksKept(b, LAMBDA k : FALSE)

WithoutNth(q, n) == SubSeq(q, 1, n - 1) \o SubSeq(q, n + 1, Len(q))

\* unwrap on the marker at token i of b: the text of the block is the same and the
\* other markers are where and what they were
UnwrapFrame(b, i) ==
    /\ Flat(Unwrap(b, i)) = Flat(b)
    /\ MarkList(Unwrap(b, i)) = MarksKept(b, LAMBDA k : k = i)

\* removeByKey: the markers of the lemma are gone, every other is left, no text changes
DeleteFrame ==
    lastOp'.op = "delete" =>
        \A k \in 1..Len(dom) :
            /\ Flat(dom'[k]) = Flat(dom[k])
            /\ MarkList(dom'[k]) = MarksKept(dom[k], LAMBDA i : MarkLemma(dom[k], i) = lastOp'.text)

\* overlap resolution: some markers of the range's block are gone (those the range
\* overlaps or, moved by an earlier unwrap, touches), every other is left as it was
\* beside the new one, no text changes
OverlapFrame ==
    (lastOp'.op = "annotate" /\ lastOp'.keys # {}) =>
        LET blk == lastOp'.rng.blk
        IN /\ \A k \in 1..Len(dom) : Flat(dom'[k]) = Flat(dom[k])
           /\ \A k \in 1..Len(dom) : k # blk => MarkList(dom'[k]) = MarkList(dom[k])
           /\ \E n \in 1..Len(MarkList(dom'[blk])) : \E gone \in SUBSET MarkOpens(dom[blk]) :
                 /\ WithoutNth(MarkList(dom'[blk]), n)
                        = MarksKept(dom[blk], LAMBDA i : i \in gone)
                 /\ \A i \in MarkOpens(dom[blk]) : Overlaps(dom[blk], lastOp'.rng, i) => i \in gone

\* C19: unwrapping a marker, directly, by removeByKey or in overlap resolution, takes
\* away that marker only and leaves its children in its place: the text of the block
\* and every other marker of the document are unchanged
C19_UnwrapFrame ==
    [][/\ \A k \in 1..Len(dom) : \A i \in MarkOpens(dom[k]) : UnwrapFrame(dom[k], i)
       /\ DeleteFrame
       /\ OverlapFrame]_vars

\* a marker was deleted and another marker is still in the document
C19_Witness == lastOp.op = "delete" /\ MarkCount(dom, 1) >= 1

\* a new marker took the place of one it overlapped
C19_WitnessOverlap ==
    /\ lastOp.op = "annotate" /\ lastOp.keys # {}
    /\ Len(PageItems(highlights)) = 2
    /\ MarkCount(dom, 1) = 1

----------------------------------------------------------------------------
(* Claims about interleaved storage operations (SpecRace)                   *)

\* the call whose set the step is
Setter == CHOOSE r \in requests : r.id = lastOp'.target

\* the records the call itself stores
OwnRecs(r, now) ==
    IF r.op = "save" THEN {<<r.url, MakeRecord(r.text, r.translation, r.context, now)>>} ELSE {}

\* C20: storage updates are unsynchronised read-modify-write. A set stores the value
\* its call read, changed by that call alone: what others stored between the call's
\* get and its set is lost (the later writer wins), and when nothing was stored in
\* between, the earlier updates are all present beside the call's own
C20_LastWriteWins ==
    [][(lastOp'.op = "set" /\ Writes(Setter)) =>
          /\ highlights' = WriteBack(Setter, Setter.snap, clock)
          /\ (Recs(highlights) \ Recs(Setter.snap)) \cap Recs(highlights')
                 \subseteq OwnRecs(Setter, clock)
          /\ Setter.snap = highlights =>
                 /\ highlights' = WriteBack(Setter, highlights, clock)
                 /\ Setter.op = "save" =>
                        Recs(highlights') = Recs(highlights) \cup OwnRecs(Setter, clock)]_vars

\* a set has just wiped out a record another call stored after the setter's get
C20_Witness == lastOp.op = "set" /\ lastOp.keys # {}

\* two saves that did not interleave: both records are stored
C20_WitnessBoth ==
    /\ lastOp.op = "set" /\ lastOp.keys = {} /\ requests = {}
    /\ TotalRecords(highlights) = 2

----------------------------------------------------------------------------
(* Claims about what storage operations leave alone                         *)

\* C28: restore only reads storage: a reload and every iteration of restore's loop
\* leave the stored highlights of every page as they were
C28_RestoreReadsOnly ==
    [][lastOp'.op \in {"reload", "restore"} => highlights' = highlights]_vars

\* restore has run to its end over a page with a record and has drawn a marker
C28_Witness ==
    /\ lastOp.op = "restore" /\ restoreIdx = 0
    /\ Len(PageItems(highlights)) >= 1
    /\ MarkCount(dom, 1) >= 1

\* C29: a save or remove of one page leaves the record list of every other page, and
\* whether it has one, unchanged
C29_OtherPagesKept ==
    [][lastOp'.op \in {"save", "remove"} =>
          \A u \in Urls \ {lastOp'.url} :
              /\ HasUrl(highlights', u) = HasUrl(highlights, u)
              /\ ItemsOf(highlights', u) = ItemsOf(highlights, u)]_vars

\* a save or an effective remove on one page while the other page has records
C29_Witness ==
    /\ lastOp.op \in {"save", "remove"}
    /\ lastOp.op = "remove" => lastOp.keys # {}
    /\ \E u \in Urls \ {lastOp.url} : ItemsOf(highlights, u) # <<>>

\* C30: the stored map holds no page with an empty record list, and each page once
C30_NoEmptyList ==
    /\ \A i \in 1..Len(highlights) : highlights[i].items # <<>>
    /\ \A i, j \in 1..Len(highlights) : highlights[i].url = highlights[j].url => i = j

\* a remove has emptied a page's list and the page is gone from the map
C30_Witness ==
    /\ lastOp.op = "remove" /\ lastOp.keys # {}
    /\ ~HasUrl(highlights, lastOp.url)

\* the word list's delete has emptied a page's list and the page is gone from the map
C30_WitnessDeleteSelected ==
    /\ lastOp.op = "deleteSelected" /\ lastOp.keys # {}
    /\ highlights = <<>>

----------------------------------------------------------------------------
(* Claims about the cache lookup of translate (SpecUI)                      *)

\* the request the step is about
Asker == CHOOSE r \in requests : r.id = lastOp'.id

\* the records of the page with the literal text and the context of request r
Matching(r) ==
    SelectSeq(PageItems(highlights), LAMBDA h : h.text = r.text /\ h.context = r.context)

\* the tooltip displayed after the step shows payload p as a result
Shows(p) ==
    tooltip # 0 => \E el \in attached' : el.id = tooltip /\ el.cls = "result" /\ el.content = p

\* C23: translate looks in the cache before it asks the network. With a record of the
\* same literal text and the same context stored for the page, the payload of the
\* first such record is shown, no request is sent, no marker is drawn and no record
\* is saved; only when there is none is a request sent, once; an answer of the
\* network only comes to a request that was sent
C23_CacheFirst ==
    [][/\ lastOp'.op = "cached" =>
             /\ Matching(Asker) # <<>>
             /\ Shows(Matching(Asker)[1].translation)
             /\ requests' = requests \ {Asker}
             /\ dom' = dom /\ highlights' = highlights
       /\ lastOp'.op = "request" =>
             /\ Matching(Asker) = <<>>
             /\ requests' = (requests \ {Asker}) \cup {[Asker EXCEPT !.stage = "net"]}
             /\ dom' = dom /\ highlights' = highlights
       /\ \A q \in requests' :
             q.stage = "net" =>
                 \/ \E p \in requests : p.id = q.id /\ p.stage = "net"
                 \/ lastOp'.op = "request" /\ q.id = lastOp'.id
       /\ lastOp'.op \in {"response", "failure"} => Asker.stage = "net"]_vars

\* a cache hit: the tooltip displayed shows a stored payload and no request is under way
C23_Witness ==
    /\ lastOp.op = "cached"
    /\ requests = {}
    /\ \E el \in attached : el.id = tooltip /\ el.cls = "result"
    /\ Len(PageItems(highlights)) >= 1

----------------------------------------------------------------------------
(* Claims about translating the same text again (SpecRepeat)                *)

\* the step's response has saved a record
Saves == lastOp'.op = "response" /\ highlights' # highlights

LastSaved == PageItems(highlights')[Len(PageItems(highlights'))]

\* the request's selection lies in a marker that holds the request's text, and a
\* record of that text is stored: the text was translated here before
TranslatedBefore(r) ==
    /\ r.rng.blk # 0
    /\ SameTextMarker(dom[r.rng.blk], r.rng, r.text)
    /\ \E h \in Range(PageItems(highlights)) : h.text = r.text

\* C24 as stated: the context stored with a record is the context its selection was
\* looked up with, so translating a text again in the same unchanged sentence is a
\* cache hit: no second request is sent
C24_AsStated ==
    [][/\ Saves => LastSaved.context = Asker.context
       /\ lastOp'.op = "request" => ~TranslatedBefore(Asker)]_vars

\* what the code does: the context stored is getContext's, the text of the block
\* around the first occurrence of the text
C24_StoredContext ==
    [][Saves => LastSaved.context = getContext(dom'[Asker.rng.blk], Asker.text)]_vars

\* a text translated before was looked up again and a second request was sent
C24_SecondRequest ==
    \E r \in requests :
        /\ r.stage = "net"
        /\ r.rng.blk # 0
        /\ SameTextMarker(dom[r.rng.blk], r.rng, r.text)
        /\ \E h \in Range(PageItems(highlights)) : h.text = r.text

----------------------------------------------------------------------------
(* Claims about a response that arrives after the dismissal (SpecUI)        *)

\* the tooltip made for the request of the step is no longer attached
AskerDismissed == \A el \in attached : el.id # Asker.id

\* the markers of d that carry the text and the payload
MarksOf(d, text, tr) ==
    {m \in AllMarks(d) : d[m[1]][m[2]].text = text /\ d[m[1]][m[2]].tr = tr}

\* C27: a translation that arrives after its tooltip was dismissed makes no tooltip
\* (no element is created or attached), yet the marker is drawn on the request's
\* range and the record is saved, as highlightSelection does for that range
C27_DismissalKeepsAnnotation ==
    [][(lastOp'.op = "response" /\ AskerDismissed) =>
          /\ {el.id : el \in attached'} = {el.id : el \in attached}
          /\ nextEl' = nextEl /\ tooltip' = tooltip /\ button' = button
          /\ ~SameTextMarker(dom[Asker.rng.blk], Asker.rng, Asker.text) =>
                /\ Len(PageItems(highlights')) = Len(PageItems(highlights)) + 1
                /\ LastSaved.text = Asker.text
                /\ LastSaved.translation = lastOp'.translation
                /\ MarksOf(dom', Asker.text, lastOp'.translation) # {}]_vars

\* a translation arrived with no tooltip attached; its marker is in the document and
\* its record in storage
C27_Witness ==
    /\ lastOp.op = "response"
    /\ \A el \in attached : el.kind # "tooltip"
    /\ MarksOf(dom, lastOp.text, lastOp.translation) # {}
    /\ \E h \in Range(PageItems(highlights)) :
          h.text = lastOp.text /\ h.translation = lastOp.translation

----------------------------------------------------------------------------
(* Claims about nested markers                                              *)

\* the markers of the document that lie inside another marker
NestedMarks(d) == {m \in AllMarks(d) : MarkDepth(d[m[1]], m[2] - 1) > 0}

C26_WitnessRestore ==
    /\ lastOp.op = "restore" /\ lastOp.rng # NoRange
    /\ MarkCount(dom, 1) + MarkCount(dom, 2) >= 2

\* what a reload would display now: restore() over the stored records on the fresh page
Reloaded == RestoreFrom(FreshDom, PageItems(highlights), 1)

\* the markers displayed, block by block: where each starts, what it holds and carries
Displayed(d) == [k \in 1..Len(d) |-> MarkList(d[k])]

\* C25 as stated: after any sequence of annotate and remove operations, a reload
\* displays exactly the markers (same spans, same payloads) displayed before it
C25_AsStated ==
    (restoreIdx = 0 /\ lastOp.op \in {"annotate", "delete"}) =>
        Displayed(Reloaded) = Displayed(dom)

\* what the code guarantees: a reload displays what the reload before it displayed
C25_ReloadIsStable ==
    (restoreIdx = 0 /\ lastOp.op = "restore") => Displayed(Reloaded) = Displayed(dom)

----------------------------------------------------------------------------
(* Claims about related words (SpecRelated)                                 *)

\* the step annotates with a payload that names a related word
AnnotatesRelated ==
    lastOp'.op = "annotate" /\ lastOp'.keys # {} /\ RelatedWords(lastOp'.translation) # <<>>

RelatedWord == RelatedWords(lastOp'.translation)[1]

\* the markers of block b that carry the related word's text and the payload
Secondary(b) ==
    {m \in Range(MarkList(b)) : m.text = RelatedWord.text /\ m.tr = lastOp'.translation}

\* the secondary markers the step has drawn
NewSecondary == Secondary(dom'[1]) \ Secondary(dom[1])

\* the hint resolves: there is an offset and the payload's sentence is in the block
Resolves ==
    /\ RelatedWord.hinted
    /\ CtxSource(lastOp'.translation) # Empty
    /\ IndexOf(Flat(dom[1]), CtxSource(lastOp'.translation)) # -1

HintedPos == IndexOf(Flat(dom[1]), CtxSource(lastOp'.translation)) + RelatedWord.offset

\* the occurrences of text in block b with no character inside a marker
FreeOccurrences(b, text) ==
    {p \in 0..(Len(Flat(b)) - Len(text)) :
        /\ OccursAt(Flat(b), text, p)
        /\ \A g \in p..(p + Len(text) - 1) : ~CharInMarker(b, g)}

DrawnAt(p) ==
    /\ Cardinality(NewSecondary) = 1
    /\ \A m \in NewSecondary : m.from = p /\ m.holds = RelatedWord.text

DrawnOnFirstFree ==
    IF FreeOccurrences(dom[1], RelatedWord.text) = {} THEN NewSecondary = {}
    ELSE DrawnAt(MinOf(FreeOccurrences(dom[1], RelatedWord.text)))

\* C22 as stated: the secondary marker is drawn at the position the offset gives,
\* unless that position is inside a marker, and then none is drawn; without a hint
\* that resolves it is drawn on the first occurrence of the related text outside
\* markers; never more than one per related word
C22_AsStated ==
    [][AnnotatesRelated =>
          /\ Cardinality(NewSecondary) <= 1
          /\ (Resolves /\ ~CharInMarker(dom[1], HintedPos)) => DrawnAt(HintedPos)
          /\ (Resolves /\ CharInMarker(dom[1], HintedPos)) => NewSecondary = {}
          /\ ~Resolves => DrawnOnFirstFree]_vars

\* what the code does: with the hinted position inside a marker the plain search
\* runs as well and draws on the first occurrence outside markers
C22_FallsBack ==
    [][AnnotatesRelated =>
          /\ Cardinality(NewSecondary) <= 1
          /\ (Resolves /\ ~CharInMarker(dom[1], HintedPos)) => DrawnAt(HintedPos)
          /\ (Resolves /\ CharInMarker(dom[1], HintedPos)) => DrawnOnFirstFree
          /\ ~Resolves => DrawnOnFirstFree]_vars

\* a secondary marker stands at the hinted position, at the end of the block, while
\* the related text also occurs free at the start
C22_DrawnAtHint ==
    /\ lastOp.op = "annotate" /\ lastOp.translation.id = "sep"
    /\ \E m \in Range(MarkList(dom[1])) :
          m.text = An /\ m.from = Len(AnDemTag) - Len(An)
    /\ \A m \in Range(MarkList(dom[1])) : m.text = An => m.from # 0

----------------------------------------------------------------------------
(* Claims about removal from the word list (SpecTabs)                       *)

\* the keys of the markers of block b, as the listener computes them
MarkerLemmas(b) == {MarkLemma(b, i) : i \in MarkOpens(b)}

\* the markers of block b as (content, text, payload), in document order
MarkData(b) == [n \in 1..Len(MarkList(b)) |->
                   <<MarkList(b)[n].holds, MarkList(b)[n].text, MarkList(b)[n].tr>>]

\* the markers of block b whose key is not lemma
OtherMarks(b, lemma) ==
    SelectSeq(MarkData(b), LAMBDA m : OrElse(m[3].lemma, m[1]) # lemma)

\* the keys of the markers of block b: canonical form, or the text annotated
MarkerKeys(b) == {DeleteKey(b, i) : i \in MarkOpens(b)}

\* C21 as stated: a deletion from the word list leaves no record with a deleted key
\* under any page and sends a removeHighlight message for each deleted key to every
\* open tab; the content script that handles such a message ends with no marker
\* whose key, canonical form or text, is the deleted key
C21_AsStated ==
    [][/\ lastOp'.op = "deleteSelected" =>
            /\ \A i \in 1..Len(AllWords(highlights')) :
                  KeyOf(AllWords(highlights')[i]) \notin lastOp'.keys
            /\ \A tab \in OpenTabs, lemma \in lastOp'.keys :
                  Message(tab, lemma) \in requests'
       /\ lastOp'.op = "removeHighlight" =>
            lastOp'.text \notin MarkerKeys(dom'[lastOp'.rng.blk])]_vars

\* what the code does: a deletion from the word list leaves no record with a deleted key under
\* any page and puts a removeHighlight message for each deleted key on its way to
\* every open tab; the content script that handles such a message ends with no
\* marker whose canonical form, or content when it has none, is the deleted key,
\* and its document is the one it had, with its text and its other markers
C21_RemovesByContent ==
    [][/\ lastOp'.op = "deleteSelected" =>
            /\ \A i \in 1..Len(AllWords(highlights')) :
                  KeyOf(AllWords(highlights')[i]) \notin lastOp'.keys
            /\ \A tab \in OpenTabs, lemma \in lastOp'.keys :
                  Message(tab, lemma) \in requests'
       /\ lastOp'.op = "removeHighlight" =>
            /\ lastOp'.text \notin MarkerLemmas(dom'[lastOp'.rng.blk])
            /\ Flat(dom'[lastOp'.rng.blk]) = Flat(dom[lastOp'.rng.blk])
            /\ MarkData(dom'[lastOp'.rng.blk]) = OtherMarks(dom[lastOp'.rng.blk], lastOp'.text)
            /\ \A t \in OpenTabs \ {lastOp'.rng.blk} : dom'[t] = dom[t]
            /\ highlights' = highlights]_vars

\* the record with key "bank" is gone, tab 1 has handled its message and shows no
\* marker with that key, tab 2 has a marker with that key and its message to come
C21_Witness ==
    /\ lastOp.op = "removeHighlight" /\ lastOp.text = Bank /\ lastOp.rng.blk = 1
    /\ Bank \notin ListedKeys(highlights)
    /\ Bank \notin MarkerLemmas(dom[1])
    /\ Message(2, Bank) \in requests /\ Bank \in MarkerLemmas(dom[2])

\* every record was deleted and every tab has handled its messages
C21_WitnessAllHandled ==
    /\ lastOp.op = "removeHighlight"
    /\ requests = {} /\ highlights = <<>>
    /\ dom = TabsDom

\* the record "nk by" is deleted and the message handled, and the marker drawn for
\* it, which holds " by", is still in the document
C21_ShrunkMarkerStays ==
    /\ lastOp.op = "removeHighlight" /\ lastOp.text = TextOf(FreshDom[1], 7, 11)
    /\ \E i \in MarkOpens(dom[1]) : dom[1][i].text = lastOp.text


====
